---- MODULE Spec2Model ----
(***************************************************************************)
(* Collision search for truncated SHA-256 digests (package myattacks):     *)
(* BirthdayAttack, PollardAttack and the helpers they are built on.        *)
(*                                                                         *)
(* Go strings of '0'/'1' are sequences over {0,1}; hex strings are         *)
(* sequences of hex digits 0..15; byte slices are sequences over 0..255.   *)
(* SHA-256 is an uninterpreted function `sha` from byte sequences to       *)
(* naturals (the digest read as an unsigned integer), fixed at Init.       *)
(***************************************************************************)
EXTENDS Integers, Sequences, FiniteSets, TLC

VARIABLES
  attack,            \* which entry point runs: "birthday", "pollard", "reconcile",
                     \* or the helper function that is called directly
  sha,               \* sha256.Sum256 read as an integer, per input byte sequence
  outBits,           \* argument outBits
  distinguishedBits, \* argument distinguishedBits (PollardAttack)
  numColls,          \* argument num / numColls
  numWorkers,        \* argument numWorkers (PollardAttack)
  pc,                \* position in the running function
  chains,            \* PollardAttack: chains []Chain, indexed 0..numWorkers-1
  dists,             \* PollardAttack: dists map[string]Chain
  collisions,        \* collisions []Collision
  iterations,        \* iterations counter
  i,                 \* PollardAttack: index of the inner loop over the chains
  dict,              \* BirthdayAttack: dict map[string]string
  v,                 \* BirthdayAttack: the reused message buffer
  fecIn,             \* arguments of a direct call of findExactCollision
  fecOut,            \* its result
  ret,               \* the returned tuple once pc = "done"
  callIn,            \* arguments of a direct call of a helper function
  callOut,           \* its result
  foundInWindow,     \* history: a collision was appended since iterations was last 0
  fecCalls,          \* history: the calls of findExactCollision the last step made
  rounds,            \* history: the passes of iterations++ of the whole run, up to MaxRounds
  mc,                \* lab1: the MyCipher object
  mm,                \* lab3: the MyMAC object
  event              \* history: what the last step did

vars == <<attack, sha, outBits, distinguishedBits, numColls, numWorkers, pc,
          chains, dists, collisions, iterations, i, dict, v, fecIn, fecOut, ret,
          callIn, callOut, foundInWindow, fecCalls, rounds, mc, mm, event>>

----------------------------------------------------------------------------
(* Program constants. *)

MinOut == 8
MaxOut == 24
MsgLen == 6
\* 64-bit build: unsafe.Sizeof of a Chain (two strings, two ints) and of a slice header
SizeofChain == 48
SizeofSlice == 24
\* the suffix P appends has four zeros
SuffixLen == 4

(* Bounds of the model. *)

\* rounds before the stall reset (10e4 in the source), scaled
StallBudget == 2
\* lock-step iterations of findExactCollision (10e6 in the source), scaled,
\* and like the source's larger than the stall budget
IterCap == 4
\* largest number of collisions asked of PollardAttack
MaxColls == 1
\* largest number of collisions asked of PollardAttack run with a single chain
MaxCollsSolo == 2
\* largest number of collisions asked of BirthdayAttack
MaxNum == 2
\* largest delta of a direct call of findExactCollision
MaxDelta == 2
\* largest number of draws of a run of BirthdayAttack that is followed
MaxDraws == 4
\* the count of all rounds of a run of PollardAttack is followed up to this
\* number (one more than the stall budget)
MaxRounds == 3

\* the plaintexts and the messages of the cipher and of the MAC have up to this
\* many bytes: two blocks and a part of a third
MaxMsgLen == 34

\* values of outBits tried: both ends of [MinOut, MaxOut] and their neighbours;
\* PollardAttack is run on the narrowest valid width only, a direct call of
\* SHA_xx on every width from -1 to two past MaxOut
OutBitsPool(att) ==
  IF att = "pollard" THEN {MinOut - 1, MinOut, MaxOut + 1}
  ELSE IF att = "SHA_xx" THEN (-1)..(MaxOut + 2)
  ELSE IF att \in {"birthday", "reconcile"} THEN {MinOut - 1, MinOut, MaxOut, MaxOut + 1}
  ELSE {0}
\* values of distinguishedBits tried: one that some stepped states meet, and one
\* longer than every stepped state of the width PollardAttack is run on
DistBitsPool == {2, 13}
\* values of numWorkers tried
WorkerPool == {1, 2}
\* integers the random source may return as seeds (each < 2^(MinOut-1))
SeedPool == {3, 16}
\* digests sha256 may return, read as integers
HashPool == {1, 65, 258}
\* six-byte messages the random source may return
MsgPool == {<<0, 0, 0, 0, 0, 1>>, <<0, 0, 0, 0, 0, 2>>, <<171, 0, 0, 0, 0, 1>>}
\* byte sequences handed to a direct call of SHA_xx
BytesPool == MsgPool \cup {<<>>}
\* digests sha256 may return to a direct call of SHA_xx: small ones, and ones
\* with bits at and above positions 8, 24 and 25
DigestPool == {0, 1, 65, 258, 16777221, 33554431, 83886081}
\* strings of '0'/'1' handed to a direct call of isDistinguished
BitStrings == UNION {[1..n -> {0, 1}] : n \in 0..3}
\* values of distinguishedBits handed to it
PrefixPool == (-1)..4
\* the strings the Collisions of a direct call of containColl are made of
NamePool == {<<0>>, <<1>>}
\* characters of the strings handed to BinToHex: 0 and 1 are '0' and '1', any
\* other character is its ASCII code: 43 is '+', 45 is '-', 50 is '2'
CharPool == {0, 1, 43, 45, 50}
CharStrings == UNION {[1..n -> CharPool] : n \in 0..3}

----------------------------------------------------------------------------
(* Integers, strings and bytes. *)

RECURSIVE Pow2(_)
Pow2(n) == IF n <= 0 THEN 1 ELSE 2 * Pow2(n - 1)

\* big.Int.And on non-negative integers
RECURSIVE BitAnd(_, _)
BitAnd(a, b) ==
  IF a = 0 \/ b = 0 THEN 0
  ELSE (a % 2) * (b % 2) + 2 * BitAnd(a \div 2, b \div 2)

\* the digits of n in the given base, most significant first, "0" for zero
RECURSIVE Digits(_, _)
Digits(n, base) ==
  IF n < base THEN <<n>> ELSE Append(Digits(n \div base, base), n % base)

RECURSIVE ZeroPad(_, _)
ZeroPad(w, s) == IF Len(s) >= w THEN s ELSE ZeroPad(w, <<0>> \o s)

\* the format without the zero padding
FmtBinNoPad(w, n) == Digits(n, 2)

\* fmt.Sprintf("%0*b", w, n)
FmtBin(w, n) == ZeroPad(w, Digits(n, 2))

\* fmt.Sprintf("%x", n)
FmtHex(n) == Digits(n, 16)

\* the integer a digit string denotes in the given base
RECURSIVE DigitsValue(_, _)
DigitsValue(s, base) ==
  IF s = <<>> THEN 0
  ELSE base * DigitsValue(SubSeq(s, 1, Len(s) - 1), base) + s[Len(s)]

\* hex.DecodeString on a string of even length
RECURSIVE HexDecode(_)
HexDecode(h) ==
  IF Len(h) < 2 THEN <<>>
  ELSE <<16 * h[1] + h[2]>> \o HexDecode(SubSeq(h, 3, Len(h)))

\* hex.EncodeToString
RECURSIVE HexEncode(_)
HexEncode(b) ==
  IF b = <<>> THEN <<>>
  ELSE <<b[1] \div 16, b[1] % 16>> \o HexEncode(Tail(b))

----------------------------------------------------------------------------
(* commons.go *)

\* SHA_xx that tests the lower end of the range only
SHA_xx_NoUpper(msg, outbits) ==
  IF outbits < MinOut
  THEN [val |-> <<>>, err |-> "Invalid out vector size"]
  ELSE [val |-> FmtBin(outbits, BitAnd(sha[msg], Pow2(outbits) - 1)), err |-> ""]

\* SHA_xx without the subtraction that turns 1<<outbits into the mask
SHA_xx_NoSub(msg, outbits) ==
  IF outbits < MinOut \/ outbits > MaxOut
  THEN [val |-> <<>>, err |-> "Invalid out vector size"]
  ELSE [val |-> FmtBin(outbits, BitAnd(sha[msg], Pow2(outbits))), err |-> ""]

SHA_xx(msg, outbits) ==
  IF outbits < MinOut \/ outbits > MaxOut
  THEN [val |-> <<>>, err |-> "Invalid out vector size"]
  ELSE [val |-> FmtBin(outbits, BitAnd(sha[msg], Pow2(outbits) - 1)), err |-> ""]

\* containColl that compares position by position only
containCollOrdered(arr, data) ==
  \E k \in 1..Len(arr) : arr[k].X = data.X /\ arr[k].Y = data.Y

\* containColl that never finds the pair
containCollNever(arr, data) == FALSE

containColl(arr, data) ==
  \E k \in 1..Len(arr) :
     \/ arr[k].X = data.X /\ arr[k].Y = data.Y
     \/ arr[k].X = data.Y /\ arr[k].Y = data.X

\* big.Int.SetString(s, 2): an optional sign, then one or more binary digits,
\* and nothing else
SetString(s) ==
  LET signed == s # <<>> /\ s[1] \in {43, 45}
      digits == IF signed THEN Tail(s) ELSE s
  IN  IF digits = <<>> \/ \E k \in 1..Len(digits) : digits[k] \notin {0, 1}
      THEN [ok |-> FALSE, neg |-> FALSE, abs |-> 0]
      ELSE [ok |-> TRUE,
            neg |-> (signed /\ s[1] = 45 /\ DigitsValue(digits, 2) # 0),
            abs |-> DigitsValue(digits, 2)]

\* BinToHex; in the result a leading 45 is the '-' that %x prints for a
\* negative number
BinToHex(binStr) ==
  LET n == SetString(binStr)
  IN  IF ~n.ok THEN [val |-> <<>>, err |-> "invalid binary string"]
      ELSE [val |-> (IF n.neg THEN <<45>> ELSE <<>>) \o FmtHex(n.abs), err |-> ""]

----------------------------------------------------------------------------
(* pollard_attack.go: helpers *)

\* one outcome of the random source: an integer, or a failure
Draws == [ok : {TRUE}, n : SeedPool] \cup {[ok |-> FALSE, n |-> 0]}

randomState(outBitsArg, draw) ==
  IF ~draw.ok THEN [val |-> <<>>, err |-> "rand"]
  ELSE [val |-> FmtBin(outBitsArg, draw.n), err |-> ""]

\* isDistinguished without the test of the length
isDistinguishedNoLen(s, dBits) ==
  \A k \in 1..dBits : k <= Len(s) => s[k] = 0

\* isDistinguished with the test of the length turned round
isDistinguishedShortOk(s, dBits) ==
  IF Len(s) < dBits THEN TRUE
  ELSE \A k \in 1..dBits : s[k] = 0

isDistinguished(s, dBits) ==
  IF Len(s) < dBits THEN FALSE
  ELSE \A k \in 1..dBits : s[k] = 0

P(x) == x \o [k \in 1..SuffixLen |-> 0]

\* binToHex: big.Int.SetString(binStr, 2) fails on the empty string
binToHex(binStr) ==
  IF binStr = <<>> THEN [val |-> <<>>, err |-> "invalid binary string"]
  ELSE [val |-> FmtHex(DigitsValue(binStr, 2)), err |-> ""]

binToBytes(binStr) ==
  LET hexStr == binToHex(binStr).val
      even   == IF Len(hexStr) % 2 # 0 THEN <<0>> \o hexStr ELSE hexStr
  IN  HexDecode(even)

chainFunc(x, outBitsArg) ==
  LET h == SHA_xx(binToBytes(x), outBitsArg)
  IN  IF h.err # "" THEN [val |-> <<>>, err |-> h.err]
      ELSE IF Len(P(h.val)) < outBitsArg
           THEN [val |-> <<>>, err |-> "chainFunc: result length too short"]
           ELSE [val |-> P(h.val), err |-> ""]

ZeroCollision == [X |-> <<>>, Y |-> <<>>]

\* a first loop that makes no step
AdvanceNone(valA, delta, outBitsArg) == [val |-> valA, err |-> ""]

\* the first loop of findExactCollision: delta steps from valA
RECURSIVE Advance(_, _, _)
Advance(valA, delta, outBitsArg) ==
  IF delta <= 0 THEN [val |-> valA, err |-> ""]
  ELSE LET r == chainFunc(valA, outBitsArg)
       IN  IF r.err # "" THEN r ELSE Advance(r.val, delta - 1, outBitsArg)

\* a second loop that hands out its last pair when the cap is reached
RECURSIVE LockStepKeep(_, _, _, _)
LockStepKeep(valA, valB, n, outBitsArg) ==
  IF n >= IterCap
  THEN [coll |-> [X |-> valA, Y |-> valB], err |-> "exact collision not found"]
  ELSE LET a == chainFunc(valA, outBitsArg)
           b == chainFunc(valB, outBitsArg)
       IN  IF b.err # "" THEN [coll |-> ZeroCollision, err |-> b.err]
           ELSE IF a.val = b.val THEN [coll |-> [X |-> valA, Y |-> valB], err |-> ""]
           ELSE LockStepKeep(a.val, b.val, n + 1, outBitsArg)

\* a second loop that hands out the zero Collision when the walks agree
LockStepZero(valA, valB, n, outBitsArg) ==
  LET r == LockStepKeep(valA, valB, n, outBitsArg)
  IN  [coll |-> ZeroCollision, err |-> IF r.err = "" THEN "" ELSE r.err]

\* the second loop, from iteration n on; only the second step's error is looked at
RECURSIVE LockStep(_, _, _, _)
LockStep(valA, valB, n, outBitsArg) ==
  IF n >= IterCap THEN [coll |-> ZeroCollision, err |-> "exact collision not found"]
  ELSE LET a == chainFunc(valA, outBitsArg)
           b == chainFunc(valB, outBitsArg)
       IN  IF b.err # "" THEN [coll |-> ZeroCollision, err |-> b.err]
           ELSE IF a.val = b.val THEN [coll |-> [X |-> valA, Y |-> valB], err |-> ""]
           ELSE LockStep(a.val, b.val, n + 1, outBitsArg)

\* findExactCollision that returns the two seeds it was given
findExactCollisionSeeds(seedA, seedB, delta, outBitsArg) ==
  LET a == Advance(seedA, delta, outBitsArg)
  IN  IF a.err # "" THEN [coll |-> ZeroCollision, err |-> a.err]
      ELSE LET r == LockStep(a.val, seedB, 0, outBitsArg)
           IN  IF r.err # "" THEN r
               ELSE [coll |-> [X |-> seedA, Y |-> seedB], err |-> ""]

\* findExactCollision without the delta steps of the longer chain
findExactCollisionNoDelta(seedA, seedB, delta, outBitsArg) ==
  LockStep(seedA, seedB, 0, outBitsArg)

findExactCollision(seedA, seedB, delta, outBitsArg) ==
  LET a == Advance(seedA, delta, outBitsArg)
  IN  IF a.err # "" THEN [coll |-> ZeroCollision, err |-> a.err]
      ELSE LockStep(a.val, seedB, 0, outBitsArg)

----------------------------------------------------------------------------
(* The returned tuple. A nil slice and an empty one are told apart. *)

NoReturn == [nilList |-> TRUE, list |-> <<>>, iterations |-> 0, mem |-> 0, err |-> ""]

\* an error return that hands out the collisions found so far
ErrReturnPartial(its, e) ==
  [nilList |-> FALSE, list |-> collisions, iterations |-> its, mem |-> 0, err |-> e]

\* return nil, iterations, 0, time.Since(start), err
ErrReturn(its, e) ==
  [nilList |-> TRUE, list |-> <<>>, iterations |-> its, mem |-> 0, err |-> e]

OkReturn(list, its, mem) ==
  [nilList |-> FALSE, list |-> list, iterations |-> its, mem |-> mem, err |-> ""]

----------------------------------------------------------------------------
(* Constants of lab1/mycrypto and of lab3/mymac. *)

AESBlockSize == 16
AESKeySize16 == 16
AESKeySize24 == 24
AESKeySize32 == 32
NonceSize == 4
IVSize == 4
CounterSize == 8

AESKeySize == 16
SHABlockSize == 32
OMACTagSize == 16
TruncTagSize == 8
HMACTagSize == 16
Rn == 135

----------------------------------------------------------------------------
(* lab1/mycrypto: MyCipher. Byte slices are sequences over 0..255; a nil     *)
(* slice is the value Nil. crypto/aes is a keyed permutation of the 16-byte  *)
(* blocks, Decrypt being the inverse of Encrypt.                             *)

Nil == <<256>>

\* len(x)
LenOf(x) == IF x = Nil THEN 0 ELSE Len(x)

\* append(nil-or-slice, y...)
Bytes(x) == IF x = Nil THEN <<>> ELSE x

\* a ^ b on bytes
RECURSIVE BitXor(_, _)
BitXor(a, b) ==
  IF a = 0 THEN b
  ELSE IF b = 0 THEN a
  ELSE ((a + b) % 2) + 2 * BitXor(a \div 2, b \div 2)

\* cipher.Block.Encrypt of the block under the key
AesEncrypt(key, block) ==
  [j \in 1..AESBlockSize |->
     (block[(j % AESBlockSize) + 1] + key[j] + j) % 256]

\* cipher.Block.Decrypt, the inverse permutation
AesDecrypt(key, block) ==
  [m \in 1..AESBlockSize |->
     LET j == IF m = 1 THEN AESBlockSize ELSE m - 1
     IN  (block[j] + 512 - key[j] - j) % 256]

ZeroCipher ==
  [key |-> Nil, mode |-> "", lastBlock |-> Nil, blockSize |-> 0, nonce |-> Nil]

\* MyCipher.SetKey
CipherSetKey(c, newkey) ==
  IF Len(newkey) \notin {AESKeySize16, AESKeySize24, AESKeySize32}
  THEN [mc |-> c, err |-> "invalid key length"]
  ELSE [mc |-> [c EXCEPT !.key = newkey, !.blockSize = AESBlockSize,
                         !.lastBlock = Nil],
        err |-> ""]

\* MyCipher.SetMode
CipherSetMode(c, newmode) ==
  IF newmode \in {"ECB", "CBC", "CFB", "OFB", "CTR"}
  THEN [mc |-> [c EXCEPT !.mode = newmode, !.lastBlock = Nil], err |-> ""]
  ELSE [mc |-> c, err |-> "wrong mode detected"]

BlockCipherEncrypt(c, data) ==
  IF Len(data) # c.blockSize
  THEN [val |-> Nil, err |-> "BlockCipherEncrypt: data length"]
  ELSE [val |-> AesEncrypt(c.key, data), err |-> ""]

BlockCipherDecrypt(c, data) ==
  IF Len(data) # c.blockSize
  THEN [val |-> Nil, err |-> "BlockCipherDecrypt: data length"]
  ELSE [val |-> AesDecrypt(c.key, data), err |-> ""]

\* mycrypto.Pkcs7Pad
Pkcs7Pad(data, blockSize) ==
  LET rest   == blockSize - (Len(data) % blockSize)
      padLen == IF rest = 0 THEN blockSize ELSE rest
  IN  data \o [k \in 1..padLen |-> padLen % 256]

\* mycrypto.Pkcs7Unpad
Pkcs7Unpad(data, blockSize) ==
  IF Len(data) = 0 \/ Len(data) % blockSize # 0
  THEN [val |-> Nil, err |-> "invalid padded data"]
  ELSE LET padLen == data[Len(data)]
       IN  IF padLen <= 0 \/ padLen > blockSize
           THEN [val |-> Nil, err |-> "invalid padding"]
           ELSE IF \E k \in 0..(padLen - 1) : data[Len(data) - k] # padLen
                THEN [val |-> Nil, err |-> "invalid padding"]
                ELSE [val |-> SubSeq(data, 1, Len(data) - padLen), err |-> ""]

xorBytes(a, b) ==
  IF LenOf(a) # LenOf(b)
  THEN [val |-> Nil, err |-> "xor: slices must have equal length"]
  ELSE [val |-> [k \in 1..LenOf(a) |-> BitXor(a[k], b[k])], err |-> ""]

\* counter[i]++ from position hi down to position lo, while the byte wraps to 0
RECURSIVE IncBytes(_, _, _)
IncBytes(counter, hi, lo) ==
  IF hi < lo THEN counter
  ELSE LET next == [counter EXCEPT ![hi] = (@ + 1) % 256]
       IN  IF next[hi] # 0 THEN next ELSE IncBytes(next, hi - 1, lo)

incBlockCTR(counter) == IncBytes(counter, AESBlockSize, NonceSize + IVSize + 1)

incMsgCTR(counter) ==
  [k \in 1..Len(counter) |->
     IF k > NonceSize + IVSize /\ k <= AESBlockSize THEN 0
     ELSE IncBytes(counter, NonceSize + IVSize, NonceSize + 1)[k]]

requiresIV(c) == c.mode # "ECB"

\* one outcome of the reads of crypto/rand a call makes: the bytes for an IV,
\* for a nonce and for the IV field of a counter block, or a failure
CipherRand ==
  [ok : BOOLEAN,
   iv : {[k \in 1..AESBlockSize |-> (3 * k) % 256]},
   nonce : {[k \in 1..NonceSize |-> 160 + k]},
   ctrIV : {[k \in 1..IVSize |-> 255]}]

\* the result of a step on a block: the object after it, the bytes, the error
BlockFail(c, e) == [mc |-> c, val |-> Nil, err |-> e]

\* the start of a message inside ProcessBlockEncrypt, when lastBlock is nil:
\* the IV (the counter block in CTR mode) is made and put in front
FreshIV(c, rnd) ==
  IF c.mode = "CTR"
  THEN LET nonce == IF c.nonce = Nil THEN rnd.nonce ELSE c.nonce
       IN  nonce \o rnd.ctrIV \o [k \in 1..CounterSize |-> 0]
  ELSE rnd.iv

\* the keystream modes' common part: the block is xored with the head of the
\* keystream block
StreamXor(c, data, from) ==
  LET e == BlockCipherEncrypt(c, from)
      n == Len(data)
      ks == IF e.err # "" THEN Nil
            ELSE IF n < c.blockSize THEN SubSeq(e.val, 1, n) ELSE e.val
  IN  IF e.err # "" THEN [val |-> Nil, ks |-> Nil, err |-> e.err]
      ELSE [val |-> xorBytes(data, ks).val, ks |-> ks, err |-> xorBytes(data, ks).err]

\* MyCipher.ProcessBlockEncrypt
ProcessBlockEncrypt(c0, data0, isFinalBlock, padding, rnd) ==
  IF padding \notin {"PKCS7", "NON"} THEN BlockFail(c0, "unsupported padding")
  ELSE IF c0.mode = "ECB"
  THEN LET data == IF isFinalBlock /\ padding = "PKCS7"
                   THEN Pkcs7Pad(data0, c0.blockSize) ELSE data0
       IN  IF ~(isFinalBlock /\ padding = "PKCS7") /\ Len(data0) # c0.blockSize
           THEN BlockFail(c0, "ECB: data block length")
           ELSE LET enc == BlockCipherEncrypt(c0, data)
                IN  IF enc.err # "" THEN BlockFail(c0, enc.err)
                    ELSE [mc |-> c0, val |-> enc.val, err |-> ""]
  ELSE IF c0.mode \notin {"CBC", "CFB", "OFB", "CTR"}
  THEN BlockFail(c0, "unsupported mode")
  ELSE IF c0.mode # "CBC" /\ padding # "NON"
  THEN BlockFail(c0, "mode does not support padding")
  ELSE IF c0.lastBlock = Nil /\ ~rnd.ok
  THEN BlockFail(c0, "failed to generate IV")
  ELSE
    LET fresh == c0.lastBlock = Nil
        c     == IF ~fresh THEN c0
                 ELSE [c0 EXCEPT !.lastBlock = FreshIV(c0, rnd),
                                 !.nonce = IF c0.mode = "CTR" /\ c0.nonce = Nil
                                           THEN rnd.nonce ELSE @]
        head  == IF fresh THEN c.lastBlock ELSE <<>>
    IN  IF c.mode = "CBC"
        THEN LET data == IF isFinalBlock /\ padding = "PKCS7"
                         THEN Pkcs7Pad(data0, c.blockSize) ELSE data0
                 x    == xorBytes(data, c.lastBlock)
                 enc  == BlockCipherEncrypt(c, x.val)
             IN  IF ~(isFinalBlock /\ padding = "PKCS7") /\ Len(data0) # c.blockSize
                 THEN BlockFail(c, "CBC: data block length")
                 ELSE IF x.err # "" THEN BlockFail(c, x.err)
                 ELSE IF enc.err # "" THEN BlockFail(c, enc.err)
                 ELSE [mc |-> [c EXCEPT !.lastBlock = enc.val],
                       val |-> head \o enc.val, err |-> ""]
        ELSE LET s == StreamXor(c, data0, c.lastBlock)
             IN  IF s.err # "" THEN BlockFail(c, s.err)
                 ELSE [mc |-> [c EXCEPT !.lastBlock =
                                  IF c.mode = "CFB"
                                  THEN (IF Len(data0) = c.blockSize THEN s.val ELSE @)
                                  ELSE IF c.mode = "OFB" THEN s.ks
                                  ELSE IF isFinalBlock THEN incMsgCTR(@)
                                  ELSE incBlockCTR(@)],
                       val |-> head \o s.val, err |-> ""]

\* MyCipher.ProcessBlockDecrypt
ProcessBlockDecrypt(c, data, isFinalBlock, padding) ==
  IF padding \notin {"PKCS7", "NON"} THEN BlockFail(c, "unsupported padding")
  ELSE IF c.mode \notin {"ECB", "CBC", "CFB", "OFB", "CTR"}
  THEN BlockFail(c, "unsupported mode")
  ELSE IF c.mode \in {"ECB", "CBC"} /\ Len(data) # c.blockSize
  THEN BlockFail(c, "ciphertext block length")
  ELSE IF c.mode \in {"CFB", "OFB", "CTR"} /\ padding # "NON"
  THEN BlockFail(c, "mode does not support padding")
  ELSE IF c.mode # "ECB" /\ c.lastBlock = Nil
  THEN IF Len(data) < c.blockSize
       THEN BlockFail(c, "ciphertext too short for IV")
       ELSE [mc |-> [c EXCEPT !.lastBlock = SubSeq(data, 1, c.blockSize)],
             val |-> <<>>, err |-> ""]
  ELSE IF c.mode \in {"ECB", "CBC"}
  THEN LET dec   == BlockCipherDecrypt(c, data)
           plain == IF c.mode = "ECB" THEN dec
                    ELSE IF dec.err # "" THEN dec
                    ELSE xorBytes(dec.val, c.lastBlock)
           after == IF c.mode = "CBC" THEN [c EXCEPT !.lastBlock = data] ELSE c
           unpad == Pkcs7Unpad(plain.val, c.blockSize)
       IN  IF plain.err # "" THEN BlockFail(c, plain.err)
           ELSE IF isFinalBlock /\ padding = "PKCS7"
                THEN [mc |-> after, val |-> unpad.val, err |-> unpad.err]
                ELSE [mc |-> after, val |-> plain.val, err |-> ""]
  ELSE LET s == StreamXor(c, data, c.lastBlock)
       IN  IF s.err # "" THEN BlockFail(c, s.err)
           ELSE [mc |-> [c EXCEPT !.lastBlock =
                            IF c.mode = "CFB"
                            THEN (IF Len(data) = c.blockSize THEN data ELSE @)
                            ELSE IF c.mode = "OFB" THEN s.ks
                            ELSE IF isFinalBlock THEN incMsgCTR(@)
                            ELSE incBlockCTR(@)],
                 val |-> s.val, err |-> ""]

\* PaddingPKCS7 for ECB and CBC, PaddingNON for the other modes
PaddingOf(c) == IF c.mode \in {"ECB", "CBC"} THEN "PKCS7" ELSE "NON"

\* the loop over the full blocks and the call on the last block, of Encrypt
RECURSIVE EncryptBlocks(_, _, _, _)
EncryptBlocks(c, data, result, rnd) ==
  LET final == ~(Len(data) > c.blockSize)
      block == IF final THEN data ELSE SubSeq(data, 1, c.blockSize)
      r     == ProcessBlockEncrypt(c, block, final, PaddingOf(c), rnd)
  IN  IF r.err # "" THEN [mc |-> r.mc, val |-> Nil, err |-> r.err]
      ELSE IF final THEN [mc |-> r.mc, val |-> result \o r.val, err |-> ""]
      ELSE EncryptBlocks(r.mc, SubSeq(data, c.blockSize + 1, Len(data)),
                         result \o r.val, rnd)

\* MyCipher.Encrypt(data, iv)
Encrypt(c, data, iv, rnd) ==
  IF c.key = Nil THEN [mc |-> c, val |-> Nil, err |-> "key unsetted"]
  ELSE IF ~requiresIV(c)
  THEN EncryptBlocks([c EXCEPT !.lastBlock = Nil], data, <<>>, rnd)
  ELSE IF iv # Nil /\ Len(iv) = c.blockSize
  THEN EncryptBlocks([c EXCEPT !.lastBlock = iv], data, iv, rnd)
  ELSE IF ~rnd.ok THEN [mc |-> c, val |-> Nil, err |-> "failed to generate IV"]
  ELSE LET first == FreshIV(c, rnd)
           seeded == [c EXCEPT !.lastBlock = first,
                               !.nonce = IF c.mode = "CTR" /\ c.nonce = Nil
                                         THEN rnd.nonce ELSE @]
       IN  IF Len(first) # c.blockSize
           THEN [mc |-> seeded, val |-> Nil, err |-> "CTR: invalid ctr length"]
           ELSE EncryptBlocks(seeded, data, first, rnd)

\* the loop over the full blocks and the call on the last block, of Decrypt
RECURSIVE DecryptBlocks(_, _, _)
DecryptBlocks(c, data, result) ==
  LET final == ~(Len(data) > c.blockSize)
      block == IF final THEN data ELSE SubSeq(data, 1, c.blockSize)
      r     == ProcessBlockDecrypt(c, block, final, PaddingOf(c))
  IN  IF r.err # "" THEN [mc |-> r.mc, val |-> Nil, err |-> r.err]
      ELSE IF final THEN [mc |-> r.mc, val |-> result \o Bytes(r.val), err |-> ""]
      ELSE DecryptBlocks(r.mc, SubSeq(data, c.blockSize + 1, Len(data)),
                         result \o Bytes(r.val))

\* MyCipher.Decrypt(data, iv)
Decrypt(c, data, iv) ==
  IF c.key = Nil THEN [mc |-> c, val |-> Nil, err |-> "key unsetted"]
  ELSE IF ~requiresIV(c)
  THEN DecryptBlocks([c EXCEPT !.lastBlock = Nil], data, <<>>)
  ELSE IF iv # Nil /\ Len(iv) = c.blockSize
  THEN DecryptBlocks([c EXCEPT !.lastBlock = iv], data, <<>>)
  ELSE IF Len(data) < c.blockSize
  THEN [mc |-> c, val |-> Nil, err |-> "data too short to contain IV"]
  ELSE DecryptBlocks([c EXCEPT !.lastBlock = SubSeq(data, 1, c.blockSize)],
                     SubSeq(data, c.blockSize + 1, Len(data)), <<>>)

----------------------------------------------------------------------------
(* lab3/mymac: MyMAC. sha256 is a perfect hash: byte j of the digest of x is *)
(* the term [sha256 |-> x, at |-> j], so that two digests are equal exactly  *)
(* when their inputs are.                                                    *)

\* sha256.Sum256(x), and hash.Sum(nil) of a hash the bytes x were written to
Sum256(x) == [j \in 1..SHABlockSize |-> [sha256 |-> x, at |-> j]]

ZeroMAC ==
  [key |-> Nil, k1 |-> Nil, k2 |-> Nil, state |-> Nil, mode |-> "",
   hmacHash |-> Nil]

\* MyMAC.SetMode
MacSetMode(m, newmode) ==
  IF newmode \in {"TRUNCATED", "HMAC", "OMAC"}
  THEN [mm |-> [m EXCEPT !.mode = newmode], err |-> ""]
  ELSE [mm |-> m, err |-> "wrong mode detected"]

\* MyMAC.AesBlockEncrypt
AesBlockEncrypt(m, data) ==
  IF LenOf(data) # AESBlockSize
  THEN [val |-> Nil, err |-> "AESBlockEncrypt: data length"]
  ELSE [val |-> AesEncrypt(m.key, data), err |-> ""]

\* leftShift: the bytes shifted left by one bit as one big-endian number
leftShift(input) ==
  [k \in 1..Len(input) |->
     ((2 * input[k]) % 256)
       + (IF k < Len(input) THEN input[k + 1] \div 128 ELSE 0)]

\* for i := range K { K[i] ^= Rn } when the top bit of the first byte of from is set
XorRn(K, from) ==
  IF from[1] >= 128 THEN [k \in 1..Len(K) |-> BitXor(K[k], Rn)] ELSE K

\* key[i] ^ 0x36 and key[i] ^ 0x5c: the key byte may be a byte of a digest, so
\* the xor is kept as a term; it is one-to-one in the key byte as the xor is
XorPad(b, c) == [xor |-> b, with |-> c]

\* MyMAC.generateSubkeys
generateSubkeys(m) ==
  IF m.mode \in {"OMAC", "TRUNCATED"}
  THEN LET L  == AesBlockEncrypt(m, [k \in 1..AESBlockSize |-> 0])
           K1 == XorRn(leftShift(L.val), L.val)
           K2 == XorRn(leftShift(K1), K1)
       IN  IF L.err # "" THEN [mm |-> m, err |-> L.err]
           ELSE [mm |-> [m EXCEPT !.k1 = K1, !.k2 = K2], err |-> ""]
  ELSE IF m.mode = "HMAC"
  THEN [mm |-> [m EXCEPT !.k1 = [k \in 1..SHABlockSize |-> XorPad(m.key[k], 54)],
                         !.k2 = [k \in 1..SHABlockSize |-> XorPad(m.key[k], 92)]],
        err |-> ""]
  ELSE [mm |-> m, err |-> "undefined algorithm"]

\* MyMAC.SetKey
MacSetKey(m, newkey) ==
  IF m.mode \in {"OMAC", "TRUNCATED"}
  THEN IF Len(newkey) # AESKeySize
       THEN [mm |-> m, err |-> "invalid key length"]
       ELSE LET keyed == [m EXCEPT !.key = newkey]
                g     == generateSubkeys(keyed)
            IN  IF g.err # "" THEN [mm |-> keyed, err |-> g.err] ELSE g
  ELSE IF m.mode = "HMAC"
  THEN LET k     == IF Len(newkey) # SHABlockSize THEN Sum256(newkey) ELSE newkey
           keyed == [m EXCEPT !.hmacHash = <<>>, !.key = k]
           g     == generateSubkeys(keyed)
       IN  IF g.err # "" THEN [mm |-> keyed, err |-> g.err]
           ELSE [mm |-> [g.mm EXCEPT !.hmacHash = @ \o g.mm.k1], err |-> ""]
  ELSE [mm |-> m, err |-> "undefined algorithm"]

\* MyMAC.MacAddBlock
MacAddBlock(m, dataBlock) ==
  IF LenOf(dataBlock) # AESBlockSize
  THEN [mm |-> m, err |-> "MacAddBlock: data length"]
  ELSE IF m.mode \in {"OMAC", "TRUNCATED"}
  THEN LET prevState == IF LenOf(m.state) = AESBlockSize THEN m.state
                        ELSE [k \in 1..AESBlockSize |-> 0]
           zeroed    == IF LenOf(m.state) = AESBlockSize THEN m
                        ELSE [m EXCEPT !.state = [k \in 1..AESBlockSize |-> 0]]
           xored     == xorBytes(prevState, dataBlock)
           newState  == AesBlockEncrypt(m, xored.val)
       IN  IF xored.err # "" THEN [mm |-> zeroed, err |-> xored.err]
           ELSE IF newState.err # "" THEN [mm |-> zeroed, err |-> newState.err]
           ELSE [mm |-> [m EXCEPT !.state = newState.val], err |-> ""]
  ELSE IF m.mode = "HMAC"
  THEN LET first == LenOf(m.state) # AESBlockSize /\ m.k1 # Nil
           fed   == IF first THEN m.hmacHash \o m.k1 ELSE m.hmacHash
       IN  [mm |-> [m EXCEPT !.hmacHash = fed \o dataBlock, !.state = dataBlock],
            err |-> ""]
  ELSE [mm |-> m, err |-> "undefined algorithm"]

\* mymac.pad: the padding 100...0
pad(data, blockSize) ==
  LET padLen == blockSize - (Len(data) % blockSize)
  IN  IF padLen = 0 THEN data
      ELSE data \o [k \in 1..padLen |-> IF k = 1 THEN 128 ELSE 0]

\* the OMAC and TRUNCATED branches of MacFinalize: the padding differs, and the
\* length of the tag
FinalizeCbc(m, lastBlock, padded, tagSize) ==
  LET full  == Len(lastBlock) = AESBlockSize
      x1    == xorBytes(IF full THEN lastBlock ELSE padded, m.state)
      x2    == xorBytes(x1.val, IF full THEN m.k1 ELSE m.k2)
      tag   == AesBlockEncrypt(m, x2.val)
  IN  IF x1.err # "" THEN [mm |-> m, val |-> Nil, err |-> x1.err]
      ELSE IF x2.err # "" THEN [mm |-> m, val |-> Nil, err |-> x2.err]
      ELSE IF tag.err # "" THEN [mm |-> m, val |-> Nil, err |-> tag.err]
      ELSE [mm |-> m, val |-> SubSeq(tag.val, 1, tagSize), err |-> ""]

\* MyMAC.MacFinalize; in HMAC mode the error of MacAddBlock is dropped
MacFinalize(m, lastBlock) ==
  IF m.mode = "OMAC"
  THEN FinalizeCbc(m, lastBlock, pad(lastBlock, AESBlockSize), OMACTagSize)
  ELSE IF m.mode = "TRUNCATED"
  THEN FinalizeCbc(m, lastBlock, Pkcs7Pad(lastBlock, AESBlockSize), TruncTagSize)
  ELSE IF m.mode = "HMAC"
  THEN LET added     == MacAddBlock(m, lastBlock).mm
           innerHash == Sum256(added.hmacHash)
           outerHash == Sum256(added.k2 \o innerHash)
       IN  [mm |-> added, val |-> SubSeq(outerHash, 1, HMACTagSize), err |-> ""]
  ELSE [mm |-> m, val |-> Nil, err |-> "undefined algorithm"]

\* the loop of ComputeMac over the blocks before the last, then MacFinalize
RECURSIVE MacBlocks(_, _)
MacBlocks(m, message) ==
  IF Len(message) > AESBlockSize
  THEN LET r == MacAddBlock(m, SubSeq(message, 1, AESBlockSize))
       IN  IF r.err # "" THEN [mm |-> r.mm, val |-> Nil, err |-> r.err]
           ELSE MacBlocks(r.mm, SubSeq(message, AESBlockSize + 1, Len(message)))
  ELSE MacFinalize(m, message)

\* MyMAC.ComputeMac
ComputeMac(m, message) ==
  IF m.mode \notin {"HMAC", "OMAC", "TRUNCATED"}
  THEN [mm |-> m, val |-> Nil, err |-> "undefined algorithm"]
  ELSE MacBlocks([m EXCEPT !.state = Nil,
                           !.hmacHash = IF m.mode = "HMAC" THEN <<>> ELSE @],
                 message)

----------------------------------------------------------------------------
(* Initial states: one call of one entry point, with its arguments. *)

ValidOut(ob) == ob >= MinOut /\ ob <= MaxOut

\* the byte sequences a run can hand to sha256: the argument of a direct call
\* of SHA_xx, the random messages, or the encodings of the seeds and of the
\* stepped chain states
ShaInputs(att, ob, call) ==
  IF att = "SHA_xx" THEN {call.msg}
  ELSE IF att \notin {"birthday", "pollard", "reconcile"} \/ ~ValidOut(ob) THEN {}
  ELSE IF att = "birthday" THEN MsgPool
  ELSE {binToBytes(FmtBin(ob, n)) : n \in SeedPool}
       \cup {binToBytes(P(FmtBin(ob, BitAnd(h, Pow2(ob) - 1)))) : h \in HashPool}

\* the arguments of a direct call of a helper function
CallInputs(att) ==
  IF att = "SHA_xx" THEN [msg : BytesPool]
  ELSE IF att = "isDistinguished" THEN [s : BitStrings, distinguishedBits : PrefixPool]
  ELSE IF att = "containColl"
       THEN [arr : UNION {[1..n -> [X : NamePool, Y : NamePool]] : n \in 0..2},
             data : [X : NamePool, Y : NamePool]]
  ELSE IF att = "BinToHex" THEN [binStr : CharStrings]
  ELSE {[none |-> TRUE]}

ZeroChain == [seed |-> <<>>, val |-> <<>>, steps |-> 0, WID |-> 0]

EmptyMap == [k \in {} |-> 0]

Init ==
  /\ attack \in {"birthday", "pollard", "reconcile",
                 "SHA_xx", "isDistinguished", "containColl", "BinToHex"}
  /\ outBits \in OutBitsPool(attack)
  /\ callIn \in CallInputs(attack)
  /\ callOut = [none |-> TRUE]
  /\ sha \in [ShaInputs(attack, outBits, callIn)
                -> IF attack = "SHA_xx" THEN DigestPool ELSE HashPool]
  /\ distinguishedBits \in (IF attack = "pollard" THEN DistBitsPool ELSE {0})
  /\ numWorkers \in (IF attack = "pollard" THEN WorkerPool ELSE {0})
  /\ numColls \in (IF attack = "pollard"
                   THEN 0..(IF numWorkers = 1 THEN MaxCollsSolo ELSE MaxColls)
                   ELSE IF attack = "birthday" THEN 0..MaxNum ELSE {0})
  /\ pc = (IF attack = "birthday" THEN "loop" ELSE "start")
  /\ chains = [j \in 0..(numWorkers - 1) |-> ZeroChain]
  /\ dists = EmptyMap
  /\ collisions = <<>>
  /\ iterations = 0
  /\ i = 0
  /\ dict = EmptyMap
  /\ v = [k \in 1..MsgLen |-> 0]
  /\ fecIn \in (IF attack = "reconcile"
                THEN [seedA : {FmtBin(outBits, n) : n \in SeedPool},
                      seedB : {FmtBin(outBits, n) : n \in SeedPool},
                      delta : 0..MaxDelta]
                ELSE {[seedA |-> <<>>, seedB |-> <<>>, delta |-> 0]})
  /\ fecOut = [coll |-> ZeroCollision, err |-> ""]
  /\ ret = NoReturn
  /\ foundInWindow = FALSE
  /\ fecCalls = <<>>
  /\ rounds = 0
  /\ mc = ZeroCipher
  /\ mm = ZeroMAC
  /\ event = "none"

----------------------------------------------------------------------------
(* PollardAttack *)

\* for len(collisions) < numColls
PLoopCond == Len(collisions) < numColls

\* a reset that leaves the worker id at its zero value
NewChainNoWID(seed, id) == [seed |-> seed, val |-> seed, steps |-> 0, WID |-> 0]

\* Chain{seed: seed, val: seed, steps: 0, WID: id}
NewChain(seed, id) == [seed |-> seed, val |-> seed, steps |-> 0, WID |-> id]

\* a reset that leaves the chain as it is
ResetChainNone(cs, id, draw) == cs

\* the chain's slot after reset(chains, id, outBits) with the given draw
ResetChain(cs, id, draw) ==
  [cs EXCEPT ![id] = NewChain(randomState(outBits, draw).val, id)]

\* for i := 0; i < numWorkers; i++ { reset(chains, i, outBits) }, stopping at
\* the first failed draw
FirstFailed(draws) ==
  IF \E j \in DOMAIN draws : ~draws[j].ok
  THEN CHOOSE j \in DOMAIN draws :
          ~draws[j].ok /\ \A k \in DOMAIN draws : k < j => draws[k].ok
  ELSE numWorkers

ResetAll(cs, draws) ==
  [j \in DOMAIN cs |->
     IF j < FirstFailed(draws) THEN NewChain(randomState(outBits, draws[j]).val, j)
     ELSE cs[j]]

\* len(dists)*(outBits+3+Sizeof(chain)) + len(chains)*Sizeof(chain)*8
PollardMem ==
  Cardinality(DOMAIN dists) * (outBits + 3 + SizeofChain)
    + numWorkers * SizeofChain * 8

PInit ==
  /\ attack = "pollard" /\ pc = "start"
  /\ \E draws \in [0..(numWorkers - 1) -> Draws] :
       /\ chains' = ResetAll(chains, draws)
       /\ IF FirstFailed(draws) < numWorkers
          THEN /\ pc' = "done"
               /\ ret' = ErrReturn(iterations, "rand")
               /\ event' = "randfail"
          ELSE /\ pc' = "loop"
               /\ ret' = ret
               /\ event' = "init"
  /\ fecCalls' = <<>>
  /\ UNCHANGED <<attack, sha, mc, mm, callIn, callOut, foundInWindow, rounds,
                 outBits, distinguishedBits, numColls, numWorkers,
                 dists, collisions, iterations, i, dict, v, fecIn, fecOut>>

\* a successful return that hands out the count of all rounds of the run
PReturnTotal ==
  /\ attack = "pollard" /\ pc = "loop"
  /\ ~PLoopCond
  /\ pc' = "done"
  /\ ret' = OkReturn(collisions, rounds, PollardMem)
  /\ event' = "return"
  /\ fecCalls' = <<>>
  /\ UNCHANGED <<attack, sha, mc, mm, callIn, callOut, foundInWindow, rounds,
                 outBits, distinguishedBits, numColls, numWorkers,
                 chains, dists, collisions, iterations, i, dict, v, fecIn, fecOut>>

\* the loop condition fails: the successful return
PReturn ==
  /\ attack = "pollard" /\ pc = "loop"
  /\ ~PLoopCond
  /\ pc' = "done"
  /\ ret' = OkReturn(collisions, iterations, PollardMem)
  /\ event' = "return"
  /\ fecCalls' = <<>>
  /\ UNCHANGED <<attack, sha, mc, mm, callIn, callOut, foundInWindow, rounds,
                 outBits, distinguishedBits, numColls, numWorkers,
                 chains, dists, collisions, iterations, i, dict, v, fecIn, fecOut>>

\* if iterations >= 10e4 { reset every chain; clear dists; iterations = 0; continue }
PStallReset ==
  /\ attack = "pollard" /\ pc = "loop"
  /\ PLoopCond
  /\ iterations >= StallBudget
  /\ \E draws \in [0..(numWorkers - 1) -> Draws] :
       /\ chains' = ResetAll(chains, draws)
       /\ IF FirstFailed(draws) < numWorkers
          THEN /\ pc' = "done"
               /\ ret' = ErrReturn(iterations, "rand")
               /\ event' = "randfail"
               /\ UNCHANGED <<dists, iterations, foundInWindow>>
          ELSE /\ pc' = "loop"
               /\ dists' = EmptyMap
               /\ iterations' = 0
               /\ foundInWindow' = FALSE
               /\ ret' = ret
               /\ event' = "stall"
  /\ fecCalls' = <<>>
  /\ UNCHANGED <<attack, sha, mc, mm, callIn, callOut, rounds,
                 outBits, distinguishedBits, numColls, numWorkers,
                 collisions, i, dict, v, fecIn, fecOut>>

\* iterations++ and the inner loop starts at chain 0
PBeginRound ==
  /\ attack = "pollard" /\ pc = "loop"
  /\ PLoopCond
  /\ iterations < StallBudget
  /\ iterations' = iterations + 1
  /\ i' = 0
  /\ pc' = IF 0 < numWorkers THEN "inner" ELSE "loop"
  /\ event' = "round"
  /\ fecCalls' = <<>>
  /\ rounds' = IF rounds < MaxRounds THEN rounds + 1 ELSE rounds
  /\ UNCHANGED <<attack, sha, mc, mm, callIn, callOut, foundInWindow,
                 outBits, distinguishedBits, numColls, numWorkers,
                 chains, dists, collisions, dict, v, fecIn, fecOut, ret>>

\* next, err := chainFunc(chains[i].val, outBits)
StepOf(k) == chainFunc(chains[k].val, outBits)

\* a step that forgets to count itself
SteppedNoCount(k) == [chains[k] EXCEPT !.val = StepOf(k).val]

\* chains[i] after steps++ and val = next
Stepped(k) == [chains[k] EXCEPT !.steps = @ + 1, !.val = StepOf(k).val]

\* an inner loop that moves on by two
AfterChainSkip ==
  /\ i' = i + 2
  /\ pc' = IF i + 2 < numWorkers THEN "inner" ELSE "loop"

\* the inner loop moves on to the next chain, or the round ends
AfterChain ==
  /\ i' = i + 1
  /\ pc' = IF i + 1 < numWorkers THEN "inner" ELSE "loop"

\* if err != nil { continue }
PStepSkip ==
  /\ attack = "pollard" /\ pc = "inner"
  /\ StepOf(i).err # ""
  /\ AfterChain
  /\ event' = "skip"
  /\ fecCalls' = <<>>
  /\ UNCHANGED <<attack, sha, mc, mm, callIn, callOut, foundInWindow, rounds,
                 outBits, distinguishedBits, numColls, numWorkers,
                 chains, dists, collisions, iterations, dict, v, fecIn, fecOut, ret>>

\* the stepped state is not distinguished
PStepWalk ==
  /\ attack = "pollard" /\ pc = "inner"
  /\ StepOf(i).err = ""
  /\ ~isDistinguished(Stepped(i).val, distinguishedBits)
  /\ chains' = [chains EXCEPT ![i] = Stepped(i)]
  /\ AfterChain
  /\ event' = "walk"
  /\ fecCalls' = <<>>
  /\ UNCHANGED <<attack, sha, mc, mm, callIn, callOut, foundInWindow, rounds,
                 outBits, distinguishedBits, numColls, numWorkers,
                 dists, collisions, iterations, dict, v, fecIn, fecOut, ret>>

\* m[key] = val
MapPut(m, key, val) ==
  [k \in DOMAIN m \cup {key} |-> IF k = key THEN val ELSE m[k]]

\* a registration that stores the chain as it was seeded
RegisterSeedOnly(m, ch) == MapPut(m, ch.val, NewChain(ch.seed, ch.WID))

\* dists[chains[i].val] = chains[i]: the Chain is copied by value
Register(m, ch) == MapPut(m, ch.val, ch)

\* a distinguished state that is no key of dists yet
PStepRegister ==
  /\ attack = "pollard" /\ pc = "inner"
  /\ StepOf(i).err = ""
  /\ isDistinguished(Stepped(i).val, distinguishedBits)
  /\ Stepped(i).val \notin DOMAIN dists
  /\ chains' = [chains EXCEPT ![i] = Stepped(i)]
  /\ dists' = Register(dists, Stepped(i))
  /\ AfterChain
  /\ event' = "register"
  /\ fecCalls' = <<>>
  /\ UNCHANGED <<attack, sha, mc, mm, callIn, callOut, foundInWindow, rounds,
                 outBits, distinguishedBits, numColls, numWorkers,
                 collisions, iterations, dict, v, fecIn, fecOut, ret>>

\* the longer chain chosen with >, so that a tie goes to the arriving chain
LongerChainStrict(val, cur) == IF val.steps > cur.steps THEN val ELSE cur

\* the roles of the two chain records of a hit
LongerChain(val, cur) == IF val.steps >= cur.steps THEN val ELSE cur
ShorterChain(val, cur) == IF val.steps >= cur.steps THEN cur ELSE val

\* the orders in which a range loop may visit the keys of a map: every key
\* once, in an order the runtime chooses
MapOrders(m) ==
  {o \in [1..Cardinality(DOMAIN m) -> DOMAIN m] :
      \A a, b \in DOMAIN o : a # b => o[a] # o[b]}

\* delete(m, key)
MapDelete(m, key) == [k \in DOMAIN m \ {key} |-> m[k]]

\* an eviction that removes the entries of the longer chain only
EvictLonger(m, order, longer, shorter) ==
  [k \in {q \in DOMAIN m : m[q].seed # longer.seed} |-> m[k]]

\* an eviction that overwrites the entries with the shorter chain's record
EvictOverwrite(m, order, longer, shorter) ==
  [k \in DOMAIN m |->
     IF m[k].seed = longer.seed \/ m[k].seed = shorter.seed THEN shorter ELSE m[k]]

\* an eviction that empties the registry
EvictAll(m, order, longer, shorter) == EmptyMap

\* an eviction that stops after its first delete
RECURSIVE EvictFirst(_, _, _, _)
EvictFirst(m, order, longer, shorter) ==
  IF order = <<>> THEN m
  ELSE IF m[Head(order)].seed = longer.seed \/ m[Head(order)].seed = shorter.seed
       THEN MapDelete(m, Head(order))
       ELSE EvictFirst(m, Tail(order), longer, shorter)

\* for key, chain := range dists { if chain.seed is one of the two seeds { delete } },
\* the keys visited in the given order; a key deleted before the loop reaches
\* it is not visited
RECURSIVE Evict(_, _, _, _)
Evict(m, order, longer, shorter) ==
  IF order = <<>> THEN m
  ELSE IF Head(order) \notin DOMAIN m
       THEN Evict(m, Tail(order), longer, shorter)
       ELSE IF m[Head(order)].seed = longer.seed \/ m[Head(order)].seed = shorter.seed
            THEN Evict(MapDelete(m, Head(order)), Tail(order), longer, shorter)
            ELSE Evict(m, Tail(order), longer, shorter)

\* a distinguished state that is a key of dists: reconcile, record, evict, reseed
PStepHit ==
  /\ attack = "pollard" /\ pc = "inner"
  /\ StepOf(i).err = ""
  /\ isDistinguished(Stepped(i).val, distinguishedBits)
  /\ Stepped(i).val \in DOMAIN dists
  /\ LET cur     == Stepped(i)
         val     == dists[cur.val]
         longer  == LongerChain(val, cur)
         shorter == ShorterChain(val, cur)
         delta   == longer.steps - shorter.steps
         found   == findExactCollision(longer.seed, shorter.seed, delta, outBits)
         stepped == [chains EXCEPT ![i] = cur]
     IN  /\ fecCalls' = <<[seedA |-> longer.seed, seedB |-> shorter.seed,
                            delta |-> delta]>>
         /\ IF found.err # ""
            THEN /\ chains' = stepped
                 /\ pc' = "done"
                 /\ ret' = ErrReturn(iterations, found.err)
                 /\ event' = "fecfail"
                 /\ UNCHANGED <<dists, collisions, i, foundInWindow>>
            ELSE /\ collisions' = IF ~containColl(collisions, found.coll)
                                  THEN Append(collisions, found.coll)
                                  ELSE collisions
                 /\ foundInWindow' = (foundInWindow \/ ~containColl(collisions, found.coll))
                 /\ \E order \in MapOrders(dists) :
                      dists' = Evict(dists, order, longer, shorter)
                 /\ \E d1 \in Draws :
                      IF ~d1.ok
                      THEN /\ chains' = stepped
                           /\ pc' = "done"
                           /\ ret' = ErrReturn(iterations, "rand")
                           /\ event' = "randfail"
                           /\ i' = i
                      ELSE \E d2 \in Draws :
                             LET once == ResetChain(stepped, longer.WID, d1)
                             IN  IF ~d2.ok
                                 THEN /\ chains' = once
                                      /\ pc' = "done"
                                      /\ ret' = ErrReturn(iterations, "rand")
                                      /\ event' = "randfail"
                                      /\ i' = i
                                 ELSE /\ chains' = ResetChain(once, shorter.WID, d2)
                                      /\ AfterChain
                                      /\ ret' = ret
                                      /\ event' = IF ~containColl(collisions, found.coll)
                                                   THEN "hit" ELSE "hitdup"
  /\ UNCHANGED <<attack, sha, mc, mm, callIn, callOut, rounds,
                 outBits, distinguishedBits, numColls, numWorkers,
                 iterations, dict, v, fecIn, fecOut>>

----------------------------------------------------------------------------
(* BirthdayAttack *)

\* the loop that goes on until the list is longer than asked
BLoopCondLeq == Len(collisions) <= numColls

\* for len(collisions) < num
BLoopCond == Len(collisions) < numColls

\* one outcome of rand.Read(v): the buffer filled with a message, or a failure
Reads == [ok : {TRUE}, msg : MsgPool] \cup {[ok |-> FALSE, msg |-> <<>>]}

\* a memory estimate that counts the collisions instead of the dictionary
BirthdayMemColls == Len(collisions) * outBits + SizeofSlice * 8

\* len(dict)*outBits + int(unsafe.Sizeof(v))*8
BirthdayMem == Cardinality(DOMAIN dict) * outBits + SizeofSlice * 8

\* the loop condition fails: the successful return
BReturn ==
  /\ attack = "birthday" /\ pc = "loop"
  /\ ~BLoopCond
  /\ pc' = "done"
  /\ ret' = OkReturn(collisions, iterations, BirthdayMem)
  /\ event' = "return"
  /\ UNCHANGED <<attack, sha, mc, mm, callIn, callOut, fecCalls, foundInWindow, rounds,
                 outBits, distinguishedBits, numColls, numWorkers,
                 chains, dists, collisions, iterations, i, dict, v, fecIn, fecOut>>

\* rand.Read fails
BReadFail ==
  /\ attack = "birthday" /\ pc = "loop"
  /\ BLoopCond
  /\ pc' = "done"
  /\ ret' = ErrReturn(iterations, "failed to generate random vector")
  /\ event' = "randfail"
  /\ UNCHANGED <<attack, sha, mc, mm, callIn, callOut, fecCalls, foundInWindow, rounds,
                 outBits, distinguishedBits, numColls, numWorkers,
                 chains, dists, collisions, iterations, i, dict, v, fecIn, fecOut>>

\* the Collision with the later draw first
BPairSwapped(prev, cur) == [X |-> cur, Y |-> prev]

\* Collision{prev, hex.EncodeToString(v)}
BPair(prev, cur) == [X |-> prev, Y |-> cur]

\* Novel without the comparison of the two messages
NovelNoDistinct(prev, cur) == ~containColl(collisions, [X |-> prev, Y |-> cur])

\* the digest step calling a SHA_xx that masks with 1<<outbits
BDigestNoSub(msg) == SHA_xx_NoSub(msg, outBits)

\* h, err := SHA_xx(v, outBits)
BDigest(msg) == SHA_xx(msg, outBits)

\* the draw is a collision worth recording: prev differs from it and the pair is new
Novel(prev, cur) ==
  prev # cur /\ ~containColl(collisions, [X |-> prev, Y |-> cur])

\* one pass of the loop body after a successful rand.Read into v
BDraw ==
  /\ attack = "birthday" /\ pc = "loop"
  /\ BLoopCond
  /\ iterations < MaxDraws
  /\ \E r \in Reads :
       /\ r.ok
       /\ v' = r.msg
       /\ LET h   == BDigest(v')
              cur == HexEncode(v')
          IN  IF h.err # ""
              THEN /\ pc' = "done"
                   /\ ret' = ErrReturn(iterations, h.err)
                   /\ event' = "config"
                   /\ UNCHANGED <<dict, collisions, iterations>>
              ELSE /\ IF h.val \in DOMAIN dict
                      THEN /\ collisions' = IF Novel(dict[h.val], cur)
                                            THEN Append(collisions,
                                                        BPair(dict[h.val], cur))
                                            ELSE collisions
                           /\ dict' = dict
                           /\ event' = IF Novel(dict[h.val], cur) THEN "append"
                                        ELSE IF dict[h.val] = cur THEN "same"
                                        ELSE "dup"
                      ELSE /\ dict' = MapPut(dict, h.val, cur)
                           /\ collisions' = collisions
                           /\ event' = "insert"
                   /\ iterations' = iterations + 1
                   /\ UNCHANGED <<pc, ret>>
  /\ UNCHANGED <<attack, sha, mc, mm, callIn, callOut, fecCalls, foundInWindow, rounds,
                 outBits, distinguishedBits, numColls, numWorkers,
                 chains, dists, i, fecIn, fecOut>>

----------------------------------------------------------------------------
(* A direct call of findExactCollision. *)

Reconcile ==
  /\ attack = "reconcile" /\ pc = "start"
  /\ fecOut' = findExactCollision(fecIn.seedA, fecIn.seedB, fecIn.delta, outBits)
  /\ pc' = "done"
  /\ event' = "call"
  /\ UNCHANGED <<attack, sha, mc, mm, callIn, callOut, fecCalls, foundInWindow, rounds,
                 outBits, distinguishedBits, numColls, numWorkers,
                 chains, dists, collisions, iterations, i, dict, v, fecIn, ret>>

----------------------------------------------------------------------------
(* Direct calls of the helper functions. *)

CallUnchanged ==
  UNCHANGED <<attack, sha, mc, mm, outBits, distinguishedBits, numColls, numWorkers,
              chains, dists, collisions, iterations, i, dict, v, fecIn, fecOut,
              ret, callIn, foundInWindow, fecCalls, rounds>>

\* SHA_xx(msg, outBits), called twice with the same arguments
CallSHA_xx ==
  /\ attack = "SHA_xx" /\ pc = "start"
  /\ callOut' = [first |-> SHA_xx(callIn.msg, outBits),
                  second |-> SHA_xx(callIn.msg, outBits)]
  /\ pc' = "done"
  /\ event' = "call"
  /\ CallUnchanged

CallIsDistinguished ==
  /\ attack = "isDistinguished" /\ pc = "start"
  /\ callOut' = isDistinguished(callIn.s, callIn.distinguishedBits)
  /\ pc' = "done"
  /\ event' = "call"
  /\ CallUnchanged

\* containColl(arr, data) and containColl(arr, Collision{data.Y, data.X})
CallContainColl ==
  /\ attack = "containColl" /\ pc = "start"
  /\ callOut' = [fwd |-> containColl(callIn.arr, callIn.data),
                  rev |-> containColl(callIn.arr,
                                      [X |-> callIn.data.Y, Y |-> callIn.data.X])]
  /\ pc' = "done"
  /\ event' = "call"
  /\ CallUnchanged

CallBinToHex ==
  /\ attack = "BinToHex" /\ pc = "start"
  /\ callOut' = BinToHex(callIn.binStr)
  /\ pc' = "done"
  /\ event' = "call"
  /\ CallUnchanged

----------------------------------------------------------------------------

Next ==
  \/ PInit
  \/ PReturn
  \/ PStallReset
  \/ PBeginRound
  \/ PStepSkip
  \/ PStepWalk
  \/ PStepRegister
  \/ PStepHit
  \/ BReturn
  \/ BReadFail
  \/ BDraw
  \/ Reconcile
  \/ CallSHA_xx
  \/ CallIsDistinguished
  \/ CallContainColl
  \/ CallBinToHex

Spec == Init /\ [][Next]_vars

----------------------------------------------------------------------------
(* The calls made on a MyCipher and on a MyMAC, in the order the harnesses   *)
(* make them.                                                                *)

\* the messages: one of every length up to MaxMsgLen
Messages == {[k \in 1..n |-> (7 * k) % 256] : n \in 0..MaxMsgLen}

\* valid keys: AES-128 and AES-256 keys; the HMAC key has the hash's block size
CipherKeys == {[k \in 1..AESKeySize16 |-> k], [k \in 1..AESKeySize32 |-> (5 * k) % 256]}
MacKeys(mode) ==
  IF mode = "HMAC"
  THEN {[k \in 1..SHABlockSize |-> k], [k \in 1..AESKeySize |-> 200 + k]}
  ELSE {[k \in 1..AESKeySize |-> 200 + k]}

CryptoInputs(att) ==
  IF att = "MyCipher"
  THEN [mode : {"ECB", "CBC", "CFB", "OFB", "CTR"}, key : CipherKeys,
        data : Messages, rnd : CipherRand]
  ELSE UNION {[mode : {m}, key : MacKeys(m), message : Messages] :
                m \in {"OMAC", "TRUNCATED", "HMAC"}}

InitCrypto ==
  /\ attack \in {"MyCipher", "MyMAC"}
  /\ callIn \in CryptoInputs(attack)
  /\ callOut = [none |-> TRUE]
  /\ mc = ZeroCipher
  /\ mm = ZeroMAC
  /\ pc = "start"
  /\ sha = EmptyMap
  /\ outBits = 0 /\ distinguishedBits = 0 /\ numColls = 0 /\ numWorkers = 0
  /\ chains = [j \in 0..(numWorkers - 1) |-> ZeroChain]
  /\ dists = EmptyMap
  /\ collisions = <<>>
  /\ iterations = 0
  /\ i = 0
  /\ dict = EmptyMap
  /\ v = [k \in 1..MsgLen |-> 0]
  /\ fecIn = [seedA |-> <<>>, seedB |-> <<>>, delta |-> 0]
  /\ fecOut = [coll |-> ZeroCollision, err |-> ""]
  /\ ret = NoReturn
  /\ foundInWindow = FALSE
  /\ fecCalls = <<>>
  /\ rounds = 0
  /\ event = "none"

CryptoUnchanged ==
  UNCHANGED <<attack, sha, outBits, distinguishedBits, numColls, numWorkers,
              chains, dists, collisions, iterations, i, dict, v, fecIn, fecOut,
              ret, callIn, foundInWindow, fecCalls, rounds>>

\* mc.SetKey(key)
MCSetKey ==
  /\ attack = "MyCipher" /\ pc = "start"
  /\ mc' = CipherSetKey(mc, callIn.key).mc
  /\ pc' = IF CipherSetKey(mc, callIn.key).err = "" THEN "keyed" ELSE "done"
  /\ event' = "SetKey"
  /\ UNCHANGED <<mm, callOut>>
  /\ CryptoUnchanged

\* mc.SetMode(mode)
MCSetMode ==
  /\ attack = "MyCipher" /\ pc = "keyed"
  /\ mc' = CipherSetMode(mc, callIn.mode).mc
  /\ pc' = IF CipherSetMode(mc, callIn.mode).err = "" THEN "ready" ELSE "done"
  /\ event' = "SetMode"
  /\ UNCHANGED <<mm, callOut>>
  /\ CryptoUnchanged

\* cipherText, err := mc.Encrypt(data, nil)
MCEncrypt ==
  /\ attack = "MyCipher" /\ pc = "ready"
  /\ LET r == Encrypt(mc, callIn.data, Nil, callIn.rnd)
     IN  /\ mc' = r.mc
         /\ callOut' = [cipherText |-> r.val, encErr |-> r.err,
                        plainText |-> Nil, decErr |-> ""]
         /\ pc' = IF r.err = "" THEN "encrypted" ELSE "done"
  /\ event' = "Encrypt"
  /\ UNCHANGED mm
  /\ CryptoUnchanged

\* plainText, err := mc.Decrypt(cipherText, nil)
MCDecrypt ==
  /\ attack = "MyCipher" /\ pc = "encrypted"
  /\ LET r == Decrypt(mc, callOut.cipherText, Nil)
     IN  /\ mc' = r.mc
         /\ callOut' = [callOut EXCEPT !.plainText = r.val, !.decErr = r.err]
  /\ pc' = "done"
  /\ event' = "Decrypt"
  /\ UNCHANGED mm
  /\ CryptoUnchanged

\* mm.SetMode(alg)
MMSetMode ==
  /\ attack = "MyMAC" /\ pc = "start"
  /\ mm' = MacSetMode(mm, callIn.mode).mm
  /\ pc' = IF MacSetMode(mm, callIn.mode).err = "" THEN "moded" ELSE "done"
  /\ event' = "SetMode"
  /\ UNCHANGED <<mc, callOut>>
  /\ CryptoUnchanged

\* mm.SetKey(key)
MMSetKey ==
  /\ attack = "MyMAC" /\ pc = "moded"
  /\ mm' = MacSetKey(mm, callIn.key).mm
  /\ pc' = IF MacSetKey(mm, callIn.key).err = "" THEN "ready" ELSE "done"
  /\ event' = "SetKey"
  /\ UNCHANGED <<mc, callOut>>
  /\ CryptoUnchanged

\* tag, err := mm.ComputeMac(message)
MMComputeMac ==
  /\ attack = "MyMAC" /\ pc = "ready"
  /\ LET r == ComputeMac(mm, callIn.message)
     IN  /\ mm' = r.mm
         /\ callOut' = [tag |-> r.val, err |-> r.err]
  /\ pc' = "done"
  /\ event' = "ComputeMac"
  /\ UNCHANGED mc
  /\ CryptoUnchanged

NextCrypto ==
  \/ MCSetKey
  \/ MCSetMode
  \/ MCEncrypt
  \/ MCDecrypt
  \/ MMSetMode
  \/ MMSetKey
  \/ MMComputeMac

SpecCrypto == InitCrypto /\ [][NextCrypto]_vars

----------------------------------------------------------------------------
(* Properties. *)

Returned(att) == attack = att /\ pc = "done"
ReturnedOk(att) == Returned(att) /\ ret.err = ""

\* chainFunc applied n times, up to its first error
RECURSIVE Iter(_, _)
Iter(x, n) ==
  IF n = 0 THEN x
  ELSE LET r == chainFunc(x, outBits)
       IN  IF r.err # "" THEN r.val ELSE Iter(r.val, n - 1)

\* the low outBits bits of the digest of a message, as a number
TruncatedDigest(msg) == sha[msg] % Pow2(outBits)

NoSelfPair(list) == \A k \in 1..Len(list) : list[k].X # list[k].Y

NoEqualPair(list) ==
  \A j, k \in 1..Len(list) :
     j # k => /\ ~(list[j].X = list[k].X /\ list[j].Y = list[k].Y)
              /\ ~(list[j].X = list[k].Y /\ list[j].Y = list[k].X)

\* C1: no Collision in the list PollardAttack returns has X = Y.
C1_PollardNoSelfPair == ReturnedOk("pollard") => NoSelfPair(ret.list)

\* C2: at every point of a run of BirthdayAttack or PollardAttack, and in the
\* returned list, no two Collisions of the list are equal as unordered pairs.
C2_NoEqualCollisions ==
  attack \in {"birthday", "pollard"} => NoEqualPair(collisions) /\ NoEqualPair(ret.list)

\* a draw that repeats an already recorded pair left the list of BirthdayAttack alone
C2_Witness == attack = "birthday" /\ event = "dup" /\ Len(collisions) >= 1

\* C3: every Collision PollardAttack returns is a collision of the chain step:
\* chainFunc(X) = chainFunc(Y), the truncated digests of the byte encodings
\* of X and Y being equal.
C3_PollardTrueCollision ==
  attack = "pollard" =>
    \A k \in 1..Len(collisions) :
       /\ chainFunc(collisions[k].X, outBits) = chainFunc(collisions[k].Y, outBits)
       /\ chainFunc(collisions[k].X, outBits).err = ""
       /\ SHA_xx(binToBytes(collisions[k].X), outBits)
            = SHA_xx(binToBytes(collisions[k].Y), outBits)
       /\ (pc = "done" /\ ret.err = "" => ret.list = collisions)

\* a returned Collision of two chains that met after different numbers of steps
C3_Witness ==
  /\ ReturnedOk("pollard")
  /\ \E k \in 1..Len(ret.list) : Len(ret.list[k].X) # Len(ret.list[k].Y)

\* C4: when PollardAttack returns without error the returned list has exactly
\* targetCollisions entries.
C4_PollardExactCount == ReturnedOk("pollard") => Len(ret.list) = numColls

\* C5: with outBits outside [8,24] and targetCollisions >= 1 the error of the
\* chain step ends the run of PollardAttack with a non-nil error and a nil
\* list; the step is not skipped.
C5_ChainErrorAborts ==
  [][(attack = "pollard" /\ pc = "inner" /\ numColls >= 1 /\ ~ValidOut(outBits))
       => (pc' = "done" /\ ret'.err # "" /\ ret'.nilList)]_vars

\* the premise of C6: the walks from seedA (delta steps ahead) and seedB agree
\* after some n >= 1 lock-step steps within the cap, and do not start equal
C6_Pre ==
  /\ Returned("reconcile") /\ ValidOut(outBits)
  /\ \E n \in 1..IterCap :
        Iter(fecIn.seedA, fecIn.delta + n) = Iter(fecIn.seedB, n)
  /\ Iter(fecIn.seedA, fecIn.delta) # fecIn.seedB

\* the least k >= 0 with f^(delta+k+1)(a) = f^(k+1)(b)
C6_Least ==
  CHOOSE k \in 0..(IterCap - 1) :
     /\ Iter(fecIn.seedA, fecIn.delta + k + 1) = Iter(fecIn.seedB, k + 1)
     /\ \A j \in 0..(k - 1) :
           Iter(fecIn.seedA, fecIn.delta + j + 1) # Iter(fecIn.seedB, j + 1)

\* C6: under that premise findExactCollision(a, b, delta) returns without error
\* the pair (f^(delta+k)(a), f^k(b)) for the least such k; X # Y and f(X) = f(Y).
C6_ExactPair ==
  C6_Pre =>
    /\ fecOut.err = ""
    /\ fecOut.coll = [X |-> Iter(fecIn.seedA, fecIn.delta + C6_Least),
                      Y |-> Iter(fecIn.seedB, C6_Least)]
    /\ fecOut.coll.X # fecOut.coll.Y
    /\ chainFunc(fecOut.coll.X, outBits).val = chainFunc(fecOut.coll.Y, outBits).val

\* a call with delta > 0 whose walks agree only after more than one lock-step step
C6_Witness == C6_Pre /\ fecIn.delta > 0 /\ C6_Least >= 1

\* C7: a return of BirthdayAttack or PollardAttack with a non-nil error carries
\* a nil list and memory estimate 0, whatever had been collected; a return with
\* a nil error carries a non-nil list.
C7_ErrorMeansNil ==
  (Returned("birthday") \/ Returned("pollard")) =>
     /\ ret.err # "" => (ret.nilList /\ ret.list = <<>> /\ ret.mem = 0)
     /\ ret.err = "" => ~ret.nilList

\* PollardAttack returned the error of a failed reseed after a collision had
\* been appended
C7_Witness ==
  Returned("pollard") /\ ret.err # "" /\ event = "randfail" /\ Len(collisions) >= 1

\* C8: no Collision in the list BirthdayAttack returns has X = Y; drawing the
\* message already stored for its digest records nothing.
C8_BirthdayNoSelfPair ==
  attack = "birthday" =>
    /\ NoSelfPair(collisions)
    /\ NoSelfPair(ret.list)
    /\ (ReturnedOk("birthday") => ret.list = collisions)

\* the stored message was drawn again
C8_Witness == attack = "birthday" /\ event = "same"

\* C9: every Collision BirthdayAttack returns is a collision of the truncated
\* digest: the digests of the decoded X and Y agree in their low outBits bits.
C9_BirthdayTrueCollision ==
  attack = "birthday" =>
    /\ \A k \in 1..Len(collisions) :
          TruncatedDigest(HexDecode(collisions[k].X))
            = TruncatedDigest(HexDecode(collisions[k].Y))
    /\ (ReturnedOk("birthday") => ret.list = collisions)

\* a Collision was returned whose first message is no longer in the buffer
C9_Witness ==
  /\ ReturnedOk("birthday") /\ Len(ret.list) >= 1
  /\ HexEncode(v) # ret.list[1].X
  /\ event = "return"

\* C10: when BirthdayAttack returns without error the returned list has
\* exactly targetCollisions entries.
C10_BirthdayExactCount == ReturnedOk("birthday") => Len(ret.list) = numColls

\* a return with two collisions asked for and found
C10_Witness == ReturnedOk("birthday") /\ numColls = 2 /\ Len(ret.list) = 2

\* C11: in BirthdayAttack an entry of the dictionary, once written, is never
\* overwritten or removed; every step that records a Collision records
\* {X: the message stored for the digest, Y: the draw just made}; and with
\* targetCollisions = 1, a first draw m1 followed by a draw m2 # m1 of equal
\* digest leaves exactly [{X: hex(m1), Y: hex(m2)}], which is what is returned.
C11_FirstDrawKept ==
  [][attack = "birthday" =>
          /\ \A key \in DOMAIN dict : key \in DOMAIN dict' /\ dict'[key] = dict[key]
          /\ collisions' # collisions =>
                /\ BDigest(v').val \in DOMAIN dict
                /\ collisions' = Append(collisions,
                                        [X |-> dict[BDigest(v').val],
                                         Y |-> HexEncode(v')])
          /\ (/\ numColls = 1 /\ iterations = 1 /\ iterations' = 2
              /\ v # v' /\ TruncatedDigest(v) = TruncatedDigest(v'))
               => collisions' = <<[X |-> HexEncode(v), Y |-> HexEncode(v')]>>
          /\ (pc' = "done" /\ ret'.err = "") => ret'.list = collisions']_vars

\* BirthdayAttack returned the one Collision of its first two draws
C11_Witness ==
  /\ ReturnedOk("birthday") /\ numColls = 1 /\ ret.iterations = 2
  /\ Len(ret.list) = 1 /\ ret.list[1].Y = HexEncode(v)

\* C12: BirthdayAttack called with outBits outside [8,24] returns, whatever
\* targetCollisions is, a non-nil error with a nil list and iterations 0, and
\* has put nothing into the dictionary.
C12_BirthdayConfigError ==
  (Returned("birthday") /\ ~ValidOut(outBits)) =>
     /\ ret.err # "" /\ ret.nilList /\ ret.iterations = 0
     /\ dict = EmptyMap

\* C13: for outBits in [8,24] SHA_xx returns no error and a string of exactly
\* outBits characters '0'/'1' that denotes the low outBits bits of the hash;
\* a second call with the same arguments returns the same.
C13_TruncateWidth ==
  (Returned("SHA_xx") /\ ValidOut(outBits)) =>
     /\ callOut.first.err = ""
     /\ Len(callOut.first.val) = outBits
     /\ \A k \in 1..Len(callOut.first.val) : callOut.first.val[k] \in {0, 1}
     /\ DigitsValue(callOut.first.val, 2) = sha[callIn.msg] % Pow2(outBits)
     /\ callOut.second = callOut.first

\* a hash with bits above the width was cut to 24 bits and padded with zeros
C13_Witness ==
  /\ Returned("SHA_xx") /\ outBits = MaxOut
  /\ sha[callIn.msg] >= Pow2(MaxOut)
  /\ callOut.first.val[1] = 0

\* C14: for outBits < 8 or outBits > 24 SHA_xx returns a non-nil error and the
\* empty string, whatever the input.
C14_TruncateRejects ==
  (Returned("SHA_xx") /\ ~ValidOut(outBits)) =>
     /\ callOut.first.err # ""
     /\ callOut.first.val = <<>>

\* SHA_xx was called with outBits one past the upper end
C14_Witness ==
  Returned("SHA_xx") /\ outBits = MaxOut + 1 /\ callOut.first.err # ""

\* C15: isDistinguished(s, k) is false when len(s) < k, and for len(s) >= k
\* it is true exactly when the first k characters of s are all '0'.
C15_DistinguishedPrefix ==
  Returned("isDistinguished") =>
     IF Len(callIn.s) < callIn.distinguishedBits
     THEN callOut = FALSE
     ELSE callOut = (\A k \in 1..callIn.distinguishedBits : callIn.s[k] = 0)

\* a string of zeros shorter than k was refused
C15_Witness ==
  /\ Returned("isDistinguished")
  /\ Len(callIn.s) >= 1 /\ Len(callIn.s) < callIn.distinguishedBits
  /\ \A k \in 1..Len(callIn.s) : callIn.s[k] = 0
  /\ callOut = FALSE

\* C16: containColl(L, {a,b}) = containColl(L, {b,a}), and it is true exactly
\* when L holds {a,b} or {b,a}.
C16_ContainSymmetric ==
  Returned("containColl") =>
     /\ callOut.fwd = callOut.rev
     /\ callOut.fwd =
          (\E k \in 1..Len(callIn.arr) :
              \/ callIn.arr[k] = callIn.data
              \/ callIn.arr[k] = [X |-> callIn.data.Y, Y |-> callIn.data.X])

\* the list held only the mirrored pair and the pair was found
C16_Witness ==
  /\ Returned("containColl")
  /\ callIn.data.X # callIn.data.Y
  /\ \A k \in 1..Len(callIn.arr) : callIn.arr[k] # callIn.data
  /\ \E k \in 1..Len(callIn.arr) :
        callIn.arr[k] = [X |-> callIn.data.Y, Y |-> callIn.data.X]
  /\ callOut.fwd

\* C17: BinToHex returns an error for the empty string and for every string
\* with a character other than '0' and '1', and for every other string it
\* returns without error the hexadecimal rendering of the number denoted.
C17_BinToHexRejects ==
  Returned("BinToHex") =>
     IF callIn.binStr = <<>>
        \/ \E k \in 1..Len(callIn.binStr) : callIn.binStr[k] \notin {0, 1}
     THEN callOut.err # ""
     ELSE /\ callOut.err = ""
          /\ callOut.val = FmtHex(DigitsValue(callIn.binStr, 2))

\* C18: in PollardAttack the current state of every chain always has length
\* exactly outBits.
C18_StateLength ==
  (attack = "pollard" /\ pc \in {"loop", "inner"} /\ ValidOut(outBits)) =>
     \A k \in DOMAIN chains : Len(chains[k].val) = outBits

\* the loop pass of PollardAttack that starts with the round counter at the
\* budget and fewer than targetCollisions collisions
C19_BudgetReached ==
  attack = "pollard" /\ pc = "loop" /\ PLoopCond /\ iterations >= StallBudget

\* the effect C19 states: registry empty, every chain freshly seeded, round
\* counter 0, no chain stepped, collisions unchanged, the loop goes on
C19_Effect ==
  /\ dists' = EmptyMap
  /\ \A k \in DOMAIN chains' :
        /\ chains'[k].steps = 0
        /\ chains'[k].val = chains'[k].seed
        /\ chains'[k].WID = k
        /\ Len(chains'[k].seed) = outBits
  /\ iterations' = 0
  /\ collisions' = collisions
  /\ pc' = "loop"

\* C19 as stated: whenever the round counter has reached the budget with fewer
\* than targetCollisions collisions, the next loop pass has that effect.
C19_StallResetAlways == [][C19_BudgetReached => C19_Effect]_vars

\* C19 amended: the pass has that effect unless a reseed fails; then the run
\* returns the error with a nil list, the registry and the collisions as they
\* were.
C19_StallResetOrError ==
  [][C19_BudgetReached =>
       \/ C19_Effect
       \/ /\ pc' = "done" /\ ret'.err # "" /\ ret'.nilList
          /\ dists' = dists /\ collisions' = collisions]_vars

\* a stall reset of two chains went through
C19_Witness ==
  attack = "pollard" /\ event = "stall" /\ numWorkers = 2 /\ ValidOut(outBits)

\* C20: a stall reset of PollardAttack happens only when no collision was
\* appended since the round counter was last 0.
C20_StallOnlyWithoutCollision ==
  [][(C19_BudgetReached /\ event' = "stall") => ~foundInWindow]_vars

\* the step of PollardAttack in which chain i reaches a distinguished state
\* that is a key of the registry
HitStep ==
  /\ attack = "pollard" /\ pc = "inner"
  /\ StepOf(i).err = ""
  /\ isDistinguished(Stepped(i).val, distinguishedBits)
  /\ Stepped(i).val \in DOMAIN dists

\* the step in which chain i reaches a distinguished state that is no key yet
RegisterStep ==
  /\ attack = "pollard" /\ pc = "inner"
  /\ StepOf(i).err = ""
  /\ isDistinguished(Stepped(i).val, distinguishedBits)
  /\ Stepped(i).val \notin DOMAIN dists

FreshChain(ch) == ch.steps = 0 /\ ch.val = ch.seed /\ Len(ch.seed) = outBits

\* C21: after a registry hit whose reconciliation succeeds, novel pair or not,
\* no registry entry owned by either of the two chains remains, the hit key is
\* gone, and when the next chain is stepped both chains are freshly seeded.
C21_HitEvictsAndResets ==
  [][(HitStep /\ event' # "fecfail") =>
       LET owner == dists[Stepped(i).val].WID
       IN  /\ Stepped(i).val \notin DOMAIN dists'
           /\ \A k \in DOMAIN dists' : dists'[k].WID \notin {i, owner}
           /\ pc' # "done" =>
                 /\ FreshChain(chains'[i]) /\ chains'[i].WID = i
                 /\ FreshChain(chains'[owner]) /\ chains'[owner].WID = owner
           /\ event' = "hitdup" => collisions' = collisions]_vars

\* a hit of one chain on the entry of the other left both freshly seeded
C21_Witness ==
  /\ attack = "pollard" /\ event = "hit" /\ numWorkers = 2 /\ iterations = 1
  /\ FreshChain(chains[0]) /\ FreshChain(chains[1])
  /\ dists = EmptyMap

\* C22: a hit never overwrites: the entry under the hit key is not replaced
\* by the arriving chain, exactly one call of findExactCollision is made for
\* the hit and none in any other step, and the value of a registry entry never
\* changes while its key stays.
C22_HitNeverOverwrites ==
  [][attack = "pollard" =>
       /\ \A k \in DOMAIN dists : k \in DOMAIN dists' => dists'[k] = dists[k]
       /\ HitStep => Len(fecCalls') = 1
       /\ ~HitStep => fecCalls' = <<>>]_vars

\* a single chain came back to its own distinguished point, a second entry of
\* the registry staying as it was
C22_Witness ==
  /\ attack = "pollard" /\ Len(fecCalls) = 1 /\ event = "hit"
  /\ numWorkers = 2 /\ dists # EmptyMap

\* C23: while PollardAttack runs and at its successful return, every registry
\* entry e is keyed by its state and belongs to the live chain at index e.WID:
\* that chain has seed e.seed and at least e.steps steps; chains[i].WID = i.
C23_EntriesBelongToLiveChains ==
  (attack = "pollard" /\ pc # "start" /\ ret.err = "") =>
     /\ \A j \in DOMAIN chains : chains[j].WID = j
     /\ \A k \in DOMAIN dists :
           /\ dists[k].val = k
           /\ dists[k].WID \in DOMAIN chains
           /\ chains[dists[k].WID].seed = dists[k].seed
           /\ chains[dists[k].WID].steps >= dists[k].steps

\* one chain was reset by a hit while the other chain's entry stayed
C23_Witness ==
  /\ attack = "pollard" /\ event \in {"hit", "hitdup"} /\ pc # "done"
  /\ \E k \in DOMAIN dists : ~FreshChain(chains[dists[k].WID])

\* C24: at every call of findExactCollision made by PollardAttack the first
\* seed is that of the record with the larger-or-equal step count, the registry
\* entry on a tie, and delta = longer.steps - shorter.steps >= 0.
C24_LongerFirst ==
  [][HitStep =>
       LET e    == dists[Stepped(i).val]
           c    == Stepped(i)
           call == fecCalls'[1]
       IN  /\ call.delta >= 0
           /\ IF e.steps >= c.steps
              THEN /\ call.seedA = e.seed /\ call.seedB = c.seed
                   /\ call.delta = e.steps - c.steps
              ELSE /\ call.seedA = c.seed /\ call.seedB = e.seed
                   /\ call.delta = c.steps - e.steps]_vars

\* a call on a tie between two chains of different seeds
C24_Witness ==
  /\ attack = "pollard" /\ Len(fecCalls) = 1
  /\ fecCalls[1].delta = 0 /\ fecCalls[1].seedA # fecCalls[1].seedB

\* C25: when a chain's step produces a distinguished state that is no registry
\* key, the registry gains exactly that key, mapped to the chain's seed, that
\* state, its step count at that moment and its owner id; the chain is not
\* reset; and a later step of the chain that walks on leaves the registry as it
\* is.
C25_RegisterSnapshot ==
  [][attack = "pollard" =>
       /\ RegisterStep =>
            LET key == StepOf(i).val
            IN  /\ DOMAIN dists' = DOMAIN dists \cup {key}
                /\ dists'[key] = [seed |-> chains[i].seed, val |-> key,
                                  steps |-> chains[i].steps + 1,
                                  WID |-> chains[i].WID]
                /\ \A k \in DOMAIN dists : dists'[k] = dists[k]
                /\ chains'[i] = dists'[key]
                /\ pc' # "done"
       /\ event' = "walk" =>
            /\ dists' = dists
            /\ chains'[i].steps = chains[i].steps + 1]_vars

\* a chain walked on after its registration: its entry still has the old count
C25_Witness ==
  /\ attack = "pollard" /\ event = "walk"
  /\ \E k \in DOMAIN dists :
        /\ chains[dists[k].WID].seed = dists[k].seed
        /\ chains[dists[k].WID].steps > dists[k].steps

\* what a visit of the inner loop does to the chains: chain i is stepped, or
\* the reconciliation its step set off has reset chains; no other chain changes
C26_Visited ==
  /\ fecCalls' = <<>> => chains' = [chains EXCEPT ![i] = Stepped(i)]
  /\ fecCalls' # <<>> => HitStep

C26_NextIndex ==
  /\ i' = i + 1
  /\ pc' = IF i + 1 < numWorkers THEN "inner" ELSE "loop"
  /\ iterations' = iterations

C26_RoundStart ==
  (attack = "pollard" /\ pc = "loop" /\ event' = "round") =>
     /\ iterations' = iterations + 1
     /\ i' = 0
     /\ chains' = chains /\ dists' = dists

C27_NeverEqual ==
  \A n \in 1..IterCap :
     Iter(fecIn.seedA, fecIn.delta + n) # Iter(fecIn.seedB, n)

\* C27: findExactCollision returns a non-nil error with the zero Collision
\* when no lock-step step within the cap makes valA = valB, every error comes
\* with the zero Collision, and a Collision returned without error is the pair
\* of a pass whose equality test succeeded.
C27_CapMeansError ==
  Returned("reconcile") =>
     /\ fecOut.err # "" => fecOut.coll = ZeroCollision
     /\ (ValidOut(outBits) /\ C27_NeverEqual) => fecOut.err # ""
     /\ fecOut.err = "" =>
          /\ chainFunc(fecOut.coll.X, outBits).err = ""
          /\ chainFunc(fecOut.coll.X, outBits).val
               = chainFunc(fecOut.coll.Y, outBits).val

\* the cap was reached on two walks that never agree
C27_Witness ==
  /\ Returned("reconcile") /\ ValidOut(outBits)
  /\ C27_NeverEqual
  /\ fecOut.err = "exact collision not found"

\* C28: when the findExactCollision call of a hit returns an error,
\* PollardAttack returns that error at once: registry, collisions and every
\* other chain as they were.
C28_ErrorPropagates ==
  [][(HitStep /\ event' = "fecfail") =>
       /\ pc' = "done" /\ ret'.err # "" /\ ret'.nilList
       /\ dists' = dists /\ collisions' = collisions
       /\ chains' = [chains EXCEPT ![i] = Stepped(i)]]_vars

\* no call of findExactCollision made by PollardAttack fails
C28_CallNeverFails == event # "fecfail"

\* distinguishedBits is larger than the length of every stepped state
C29_TooManyBits ==
  attack = "pollard" /\ distinguishedBits > outBits + SuffixLen

\* C29 as stated: then the registry and the collisions list stay empty and a
\* run with targetCollisions >= 1 never returns.
C29_NeverReturns ==
  C29_TooManyBits =>
     /\ dists = EmptyMap /\ collisions = <<>>
     /\ numColls >= 1 => pc # "done"

\* C29 amended: then the registry and the collisions list stay empty and a run
\* with targetCollisions >= 1 never returns a result: its only return is the
\* error of a failed draw of a seed; until then the chains walk in step from
\* one stall reset to the next.
C29_NoResult ==
  C29_TooManyBits =>
     /\ dists = EmptyMap /\ collisions = <<>>
     /\ (numColls >= 1 /\ pc = "done") =>
           (ret.err # "" /\ ret.nilList /\ event = "randfail")
     /\ (numColls >= 1 /\ pc = "loop" /\ ValidOut(outBits)) =>
           (iterations <= StallBudget /\ \A k \in DOMAIN chains :
                                             chains[k].steps = iterations)

\* a stall reset of a run whose registry cannot fill
C29_Witness ==
  /\ C29_TooManyBits /\ ValidOut(outBits) /\ numColls >= 1
  /\ event = "stall" /\ numWorkers = 2

\* C30: on a successful return the memory estimate of BirthdayAttack is the
\* number of dictionary entries times outBits plus the same constant in every
\* run, and the dictionary never has more entries than min(iterations,
\* 2^outBits).
C30_BirthdayMemory ==
  attack = "birthday" =>
     /\ Cardinality(DOMAIN dict) <= iterations
     /\ Cardinality(DOMAIN dict) <= Pow2(outBits)
     /\ ReturnedOk("birthday") =>
          /\ ret.mem = Cardinality(DOMAIN dict) * outBits + SizeofSlice * 8
          /\ ret.iterations = iterations

\* a return after draws that hit two digests, one of them more than once
C30_Witness ==
  /\ ReturnedOk("birthday")
  /\ Cardinality(DOMAIN dict) = 2 /\ ret.iterations > 2
  /\ ret.mem = 2 * outBits + SizeofSlice * 8

\* C31: in PollardAttack with a valid outBits every chain's state is chainFunc
\* applied steps times to its seed, and every registry entry is keyed by its
\* state, which is chainFunc applied e.steps >= 1 times to e.seed and is
\* distinguished for distinguishedBits.
C31_ChainReplay ==
  (attack = "pollard" /\ ValidOut(outBits)) =>
     /\ \A k \in DOMAIN chains :
           chains[k].val = Iter(chains[k].seed, chains[k].steps)
     /\ \A key \in DOMAIN dists :
           /\ dists[key].val = key
           /\ key = Iter(dists[key].seed, dists[key].steps)
           /\ dists[key].steps >= 1
           /\ isDistinguished(key, distinguishedBits)

\* an entry registered at a chain's second step, the chain having walked on
\* from an undistinguished first state
C31_Witness ==
  /\ attack = "pollard" /\ ValidOut(outBits)
  /\ \E key \in DOMAIN dists :
        /\ dists[key].steps = 2
        /\ ~isDistinguished(Iter(dists[key].seed, 1), distinguishedBits)
        /\ chains[dists[key].WID].val = key

\* the step count of the shorter of the two records of a hit
C32_ShorterSteps ==
  LET e == dists[Stepped(i).val]
      c == Stepped(i)
  IN  IF e.steps >= c.steps THEN c.steps ELSE e.steps

\* C32: with a valid outBits every call of findExactCollision PollardAttack
\* makes returns a Collision without error: the two walks agree after at most
\* shorter.steps lock-step steps, which is at most the stall budget and so
\* below the cap; the run never returns the reconciliation error.
C32_ReconcileNeverFails ==
  [][(HitStep /\ ValidOut(outBits)) =>
       LET call == fecCalls'[1]
       IN  /\ event' # "fecfail"
           /\ ret'.err \notin {"exact collision not found",
                               "Invalid out vector size",
                               "chainFunc: result length too short"}
           /\ findExactCollision(call.seedA, call.seedB, call.delta, outBits).err = ""
           /\ C32_ShorterSteps >= 1
           /\ C32_ShorterSteps <= StallBudget
           /\ StallBudget < IterCap
           /\ \E n \in 1..C32_ShorterSteps :
                 Iter(call.seedA, call.delta + n) = Iter(call.seedB, n)]_vars

\* a reconciliation of two chains of different seeds, one a step ahead, went
\* through and its pair was recorded
C32_Witness ==
  /\ attack = "pollard" /\ event = "hit" /\ Len(fecCalls) = 1
  /\ fecCalls[1].delta >= 1 /\ fecCalls[1].seedA # fecCalls[1].seedB
  /\ Len(collisions) >= 1

\* C33: in PollardAttack the round counter never exceeds the stall budget and
\* every chain's step count is at most the round counter; the iterations value
\* of a successful return is the round counter, the number of rounds since the
\* most recent stall reset, not the number of all rounds of the run.
C33_RoundsSinceReset ==
  attack = "pollard" =>
     /\ iterations <= StallBudget
     /\ \A k \in DOMAIN chains : chains[k].steps <= iterations
     /\ \A key \in DOMAIN dists : dists[key].steps <= iterations
     /\ rounds < MaxRounds =>
           /\ rounds >= iterations
           /\ (rounds - iterations) % StallBudget = 0
     /\ rounds = MaxRounds => rounds >= iterations
     /\ ReturnedOk("pollard") =>
           /\ ret.iterations = iterations
           /\ ret.iterations <= StallBudget
           /\ ret.iterations <= rounds

\* a successful return with a collision found in the window after a stall
\* reset: the run made more rounds than it reports
C33_Witness ==
  /\ ReturnedOk("pollard") /\ Len(ret.list) >= 1
  /\ rounds > ret.iterations
  /\ ret.iterations >= 1

\* C34: the two strings of every Collision PollardAttack returns encode to
\* different byte sequences, binToBytes(X) # binToBytes(Y), also when X and Y
\* have different lengths. Stated of the pairs with X # Y: a pair of two equal
\* strings has equal encodings whatever binToBytes does.
C34_DistinctBytes ==
  ReturnedOk("pollard") =>
     \A k \in 1..Len(ret.list) :
        ret.list[k].X # ret.list[k].Y =>
           binToBytes(ret.list[k].X) # binToBytes(ret.list[k].Y)

\* a string BinToHex and the harness's binToHex accept: one or more '0'/'1'
C35_BitString(x) ==
  /\ Len(x) >= 1
  /\ \A k \in 1..Len(x) : x[k] \in {0, 1}
  /\ BinToHex(x).err = ""
  /\ binToHex(x).err = ""

\* C35: every X and Y of every Collision PollardAttack collects and returns
\* is a non-empty string over {'0','1'}, a seed or a stepped chain state, so
\* BinToHex succeeds on each of them.
C35_CollisionsPrintable ==
  attack = "pollard" =>
     /\ \A k \in 1..Len(collisions) :
           /\ C35_BitString(collisions[k].X) /\ C35_BitString(collisions[k].Y)
           /\ Len(collisions[k].X) \in {outBits, outBits + SuffixLen}
           /\ Len(collisions[k].Y) \in {outBits, outBits + SuffixLen}
     /\ ReturnedOk("pollard") => ret.list = collisions

\* a returned list of two Collisions, a seed and a stepped state among them
C35_Witness ==
  /\ ReturnedOk("pollard") /\ Len(ret.list) = 2
  /\ \E k \in 1..2 : Len(ret.list[k].X) = outBits + SuffixLen
  /\ \E k \in 1..2 : Len(ret.list[k].Y) = outBits

\* the two records of the hit chain i is about to make
C36_Entry == dists[Stepped(i).val]
C36_Seeds == {C36_Entry.seed, chains[i].seed}

\* C36: a reconciliation that succeeds changes only the two chains involved
\* and the registry entries whose recorded seed is one of those chains' seeds:
\* every other chain and every other registry entry stay as they were, and the
\* collisions list stays or grows by one element at its end.
C36_ReconcileFrame ==
  [][(HitStep /\ event' # "fecfail") =>
       /\ \A k \in DOMAIN chains :
             k \notin {i, C36_Entry.WID} => chains'[k] = chains[k]
       /\ DOMAIN chains' = DOMAIN chains
       /\ \A key \in DOMAIN dists :
             IF dists[key].seed \in C36_Seeds
             THEN key \notin DOMAIN dists'
             ELSE key \in DOMAIN dists' /\ dists'[key] = dists[key]
       /\ DOMAIN dists' \subseteq DOMAIN dists
       /\ \/ collisions' = collisions
          \/ /\ Len(collisions') = Len(collisions) + 1
             /\ SubSeq(collisions', 1, Len(collisions)) = collisions
       /\ iterations' = iterations]_vars

\* a chain came back to its own distinguished point while the other chain,
\* some steps on, and its registry entry stayed as they were
C36_Witness ==
  /\ attack = "pollard" /\ numWorkers = 2 /\ pc # "done"
  /\ event \in {"hit", "hitdup"}
  /\ fecCalls[1].seedA = fecCalls[1].seedB
  /\ \E k \in DOMAIN chains :
        /\ chains[k].steps >= 1
        /\ \E key \in DOMAIN dists : dists[key].seed = chains[k].seed

\* C37: PollardAttack is a function of its arguments and of the seeds drawn:
\* the only other choice a run makes, the order in which the eviction's range
\* loop visits the registry, does not change the step's outcome.
C37_OrderIndependent ==
  [][(HitStep /\ event' # "fecfail") =>
       LET longer  == LongerChain(C36_Entry, Stepped(i))
           shorter == ShorterChain(C36_Entry, Stepped(i))
       IN  \A order \in MapOrders(dists) :
              dists' = Evict(dists, order, longer, shorter)]_vars

\* an eviction with two entries to delete, visited in either order: the chain
\* that hit the other's entry at its second step had registered its first
C37_Witness ==
  /\ attack = "pollard" /\ event \in {"hit", "hitdup"} /\ numWorkers = 2
  /\ fecCalls[1].delta = 1
  /\ fecCalls[1].seedA # fecCalls[1].seedB
  /\ isDistinguished(Iter(fecCalls[1].seedA, 1), distinguishedBits)
  /\ Iter(fecCalls[1].seedA, 1) # Iter(fecCalls[1].seedA, 2)

----------------------------------------------------------------------------
\* C38: in each of the modes ECB, CBC, CFB, OFB and CTR, with a valid key and a
\* nil iv, Encrypt of any plaintext (the empty one and the whole multiples of
\* the block size included) succeeds when the random source does, and Decrypt
\* of its result returns the plaintext without error.
C38_RoundTrip ==
  (attack = "MyCipher" /\ callIn.rnd.ok)
    => /\ event = "Encrypt" => callOut.encErr = ""
       /\ event = "Decrypt" => /\ callOut.decErr = ""
                               /\ Bytes(callOut.plainText) = callIn.data

\* C39: after SetMode and SetKey with a valid key, ComputeMac returns a tag and
\* no error for a message of any length, a message of at most one block
\* included; the tag has 16 bytes in OMAC mode, 8 in TRUNCATED mode and 16 in
\* HMAC mode.
C39_TagReturned ==
  (attack = "MyMAC" /\ event = "ComputeMac")
    => /\ callOut.err = ""
       /\ LenOf(callOut.tag) = (IF callIn.mode = "TRUNCATED" THEN TruncTagSize
                                ELSE IF callIn.mode = "OMAC" THEN OMACTagSize
                                ELSE HMACTagSize)

\* H(k2 || H(k1 || message)) cut to the length of the tag
HmacOf(m, message) ==
  SubSeq(Sum256(m.k2 \o Sum256(m.k1 \o message)), 1, HMACTagSize)

\* C40: in HMAC mode the tag of ComputeMac(message) is the first 16 bytes of
\* H(k2 || H(k1 || message)) for a message of any length: the inner hash gets
\* k1 once and then every byte of the message, the bytes of a last block of
\* fewer or more than 16 bytes included.
C40_HmacTag ==
  (attack = "MyMAC" /\ event = "ComputeMac" /\ callIn.mode = "HMAC")
    => callOut.tag = HmacOf(mm, callIn.message)

====
